---------------------------- MODULE Spec2Model ----------------------------
(***************************************************************************)
(* A model of the voice-generation library: the ElevenLabs TTS client with *)
(* its retry loop (clients/elevenlabs.py), the file-backed audio cache     *)
(* (clients/cache.py) and the generation pipeline (core/generator.py with  *)
(* processors/audio.py, storage/filesystem.py and __main__.py).            *)
(*                                                                         *)
(* Python's Optional[str] is modelled as a sequence of length at most one: *)
(* None is <<>> and the string s is <<s>>.  Audio is modelled by its       *)
(* duration in milliseconds.  Times are seconds since the first state.     *)
(***************************************************************************)
EXTENDS Integers, Sequences, FiniteSets, TLC

VARIABLES
    \* ---- ElevenLabsClient fields (elevenlabs.py 76-93)
    max_retries, retry_backoff_factor, cache_enabled, voice_config,
    cache_hits, cache_misses, api_calls, total_characters,
    \* ---- the cache directory: key -> file, for *.wav and *.meta.json
    blob, meta,
    \* ---- the wall clock read by time.time()
    now,
    \* ---- observation of the latest operation: its inputs and what it did
    call, ret,
    \* ---- history: every AudioCache.set so far; every key generate_audio asked for
    set_log, requested, remote_failed,
    \* ---- how many operations / clock steps the behaviour has taken
    n_calls, n_ticks,
    \* ---- VoiceNarrationGenerator.generate: where the run is and what it holds
    gen,
    \* ---- the storage: the exercise directory and the files in it
    dir_created, out_files,
    \* ---- everything the run has done to the TTS client and the storage, in order
    events,
    \* ---- how many runs have started
    n_runs,
    \* ---- the NarrationValidator instance: the lists it holds since its
    \* ---- latest validate
    validator,
    \* ---- every script it was given directly, with the result it returned
    returned,
    \* ---- the processes that share the cache directory: the AudioCache call
    \* ---- each is in, the statement it is at, how its latest call ended
    proc

clientVars == <<max_retries, retry_backoff_factor, cache_enabled, voice_config,
                cache_hits, cache_misses, api_calls, total_characters>>
fsVars     == <<blob, meta>>
obsVars    == <<call, ret, set_log, requested, remote_failed>>
runVars    == <<gen, dir_created, out_files, events, n_runs>>
genVars    == <<runVars, validator, returned, proc>>
cacheVars  == <<clientVars, fsVars, now, obsVars, n_calls, n_ticks>>
vars       == <<cacheVars, genVars>>

-----------------------------------------------------------------------------
(* Bounds of the model *)

MaxRetries == 3      \* largest max_retries a client is configured with
MaxCalls   == 2      \* generate_audio calls per behaviour of the client specs
MaxTicks   == 2      \* clock steps per behaviour of the cache specs
MaxClientTicks == 1  \* clock steps per behaviour of the client specs
MaxCacheOps  == 3    \* operations per behaviour of the cache spec
MaxFaultyOps == 3    \* operations per behaviour of the cache spec with failures
MaxFaults  == 2      \* I/O operations that fail within one call
TtlDays    == 1      \* cache_ttl_days of the modelled cache
MaxSegments == 2     \* segments of a narration script
MaxRuns    == 1      \* runs of generate per behaviour
MaxGuides  == 3      \* entries of a guide table
MaxMetadataSegments == 3  \* segments of a script given to the metadata builder
MaxResults == 2      \* segment results given to the metadata builder
MaxMs      == 2001   \* the longest duration or buffer, in milliseconds
MaxStitched == 3     \* buffers in one call of stitch
MaxValidated == 3    \* segments of a script given to the validator
MaxValidations == 3  \* validate calls on one NarrationValidator
MaxProcs == 2        \* processes sharing one cache directory
MaxProcCalls == 2    \* get/set calls of each of them

None      == <<>>
Some(x)   == <<x>>

Texts        == {"a", "bb"}
Contexts     == {None, Some(""), Some("a")}
VoiceConfigs == {"v1", "v2"}
Durations    == {1500, 2000}
SpokenDurations == {1500, 2000, 2001}
BackoffFactors == {2, 3}

\* The status that stands for a network failure (requests.post raises).
NetFail   == 0

RECURSIVE Pow(_, _)
Pow(b, e) == IF e = 0 THEN 1 ELSE b * Pow(b, e - 1)

RECURSIVE SumSeq(_)
SumSeq(s) == IF s = <<>> THEN 0 ELSE Head(s) + SumSeq(Tail(s))

Max(S) == CHOOSE x \in S : \A y \in S : y <= x

\* Two (text, previous, next, voice configuration) inputs that count as the
\* same request: equal, an absent context and an empty one being the same.
SameContext(x, y) == x = y \/ {x, y} \subseteq {None, Some("")}
SameInputs(i, j) ==
    /\ i[1] = j[1] /\ SameContext(i[2], j[2]) /\ SameContext(i[3], j[3]) /\ i[4] = j[4]

\* The number of different requests among a set of inputs.
RECURSIVE DistinctInputs(_)
DistinctInputs(S) ==
    IF S = {} THEN 0
    ELSE LET i == CHOOSE x \in S : TRUE
         IN  1 + DistinctInputs({j \in S : ~SameInputs(i, j)})

-----------------------------------------------------------------------------
(* AudioCache (clients/cache.py) *)

\* self.ttl_seconds = ttl_days * 24 * 60 * 60
ttl_seconds == TtlDays * 24 * 60 * 60

\* Python's `x or ""` on an Optional[str]: None and "" both give "".
OrEmpty(x) == IF x = None THEN "" ELSE IF x[1] = "" THEN "" ELSE x[1]

\* A mutant of _compute_key: the following context is left out of the key.
compute_key_without_next(text, previous_text, next_text, vc) ==
    <<text, OrEmpty(previous_text), "", vc>>

\* _compute_key: sha256 of the sorted-keys JSON of the four inputs.  The hash
\* and the JSON dump are injective on what they are given; what is lost is the
\* difference between None and "" in the two contexts.
compute_key(text, previous_text, next_text, vc) ==
    <<text, OrEmpty(previous_text), OrEmpty(next_text), vc>>

Keys == {compute_key(t, p, n, v) : t \in Texts, p \in Contexts,
                                   n \in Contexts, v \in VoiceConfigs}

\* A file of the cache directory.  st: "absent", "ok" (completely written) or
\* "partial" (created, then the write failed).  A blob carries the duration of
\* its audio, a sidecar the timestamp it was written with.
NoFile      == [st |-> "absent",  val |-> 0]
PartialFile == [st |-> "partial", val |-> 0]
File(v)     == [st |-> "ok",      val |-> v]
FileStates  == {"absent", "ok", "partial"}

\* Path.exists()
Exists(f) == f.st # "absent"

\* The I/O operations of one call that the environment may fail.
\*   read_meta / read_blob      open + json.load / AudioSegment.from_wav
\*   write_blob_open / _data    audio.export fails before / after creating the file
\*   write_meta_open / _data    open(meta_path, "w") fails / json.dump fails
\*   unlink_blob / unlink_meta  Path.unlink fails
FaultKinds == {"read_meta", "read_blob", "write_blob_open", "write_blob_data",
               "write_meta_open", "write_meta_data", "unlink_blob", "unlink_meta"}
NoFaults   == {{}}
SomeFaults == {F \in SUBSET FaultKinds : Cardinality(F) <= MaxFaults}

\* The processes that use one cache directory, and one that is in no call.
\* op: the AudioCache method it is in; pc: the statement it is at; out: how
\* its latest call ended; n: the calls it has made.
Procs == 1..MaxProcs
NoProc == [op |-> "none", pc |-> "idle", out |-> "none", n |-> 0]

\* A mutant of the TTL test: an entry exactly TTL old is already expired.
Expired_at_ttl(age_seconds) == age_seconds >= ttl_seconds

\* cache.py 106: if age_seconds > self.ttl_seconds
Expired(age_seconds) == age_seconds > ttl_seconds

\* _delete_entry (cache.py 168-176): unlink the blob if it exists, then the
\* sidecar if it exists.  A failing unlink raises out of _delete_entry and
\* leaves the rest undone.
delete_entry(b, m, F) ==
    LET b_raise == Exists(b) /\ "unlink_blob" \in F
        b1      == IF Exists(b) /\ ~b_raise THEN NoFile ELSE b
        m_raise == ~b_raise /\ Exists(m) /\ "unlink_meta" \in F
        m1      == IF ~b_raise /\ Exists(m) /\ ~m_raise THEN NoFile ELSE m
    IN  [blob |-> b1, meta |-> m1, raised |-> b_raise \/ m_raise]

\* AudioCache.get (cache.py 89-119) on the two files of one key at time t.
\* audio is None for a miss and Some(duration) for a hit.  Every exception
\* raised after the existence check is caught and turned into a miss.
cache_get(b, m, t, F) ==
    IF ~(Exists(b) /\ Exists(m))
    THEN [blob |-> b, meta |-> m, audio |-> None]
    ELSE IF m.st # "ok" \/ "read_meta" \in F
    THEN [blob |-> b, meta |-> m, audio |-> None]
    ELSE IF Expired(t - m.val)
    THEN LET d == delete_entry(b, m, F)
         IN  [blob |-> d.blob, meta |-> d.meta, audio |-> None]
    ELSE IF b.st # "ok" \/ "read_blob" \in F
    THEN [blob |-> b, meta |-> m, audio |-> None]
    ELSE [blob |-> b, meta |-> m, audio |-> Some(b.val)]

\* A mutant of the cleanup in set: only the blob is removed.
cleanup_partial_write_blob_only(b, m, F) ==
    LET b_raise == Exists(b) /\ "unlink_blob" \in F
        b1      == IF Exists(b) /\ ~b_raise THEN NoFile ELSE b
    IN  [blob |-> b1, meta |-> m, raised |-> b_raise]

\* The except branch of AudioCache.set (cache.py 160-166): remove what exists
\* of the pair.  The unlinks are not guarded: a failing unlink raises out of set.
cleanup_partial_write(b, m, F) ==
    LET b_raise == Exists(b) /\ "unlink_blob" \in F
        b1      == IF Exists(b) /\ ~b_raise THEN NoFile ELSE b
        m_raise == ~b_raise /\ Exists(m) /\ "unlink_meta" \in F
        m1      == IF ~b_raise /\ Exists(m) /\ ~m_raise THEN NoFile ELSE m
    IN  [blob |-> b1, meta |-> m1, raised |-> b_raise \/ m_raise]

\* A mutant of set: nothing is stored.
cache_set_discard(b, m, dur, t, F) == [blob |-> b, meta |-> m, raised |-> FALSE]

\* AudioCache.set (cache.py 139-166) on the two files of one key: export the
\* audio, then write the sidecar stamped with time.time(); on any exception
\* clean up.  raised: an exception left set.
cache_set(b, m, dur, t, F) ==
    LET blob_open_fails == "write_blob_open" \in F
        blob_data_fails == ~blob_open_fails /\ "write_blob_data" \in F
        b1 == IF blob_open_fails THEN b
              ELSE IF blob_data_fails THEN PartialFile ELSE File(dur)
        blob_failed     == blob_open_fails \/ blob_data_fails
        meta_open_fails == ~blob_failed /\ "write_meta_open" \in F
        meta_data_fails == ~blob_failed /\ ~meta_open_fails /\ "write_meta_data" \in F
        m1 == IF blob_failed \/ meta_open_fails THEN m
              ELSE IF meta_data_fails THEN PartialFile ELSE File(t)
        failed == blob_failed \/ meta_open_fails \/ meta_data_fails
    IN  IF failed THEN cleanup_partial_write(b1, m1, F)
        ELSE [blob |-> b1, meta |-> m1, raised |-> FALSE]

-----------------------------------------------------------------------------
(* Narration scripts (core/models.py) *)

\* Python truthiness of an Optional[int]: None and 0 are false.
Truthy(x) == x # None /\ x[1] # 0

\* BreathingPattern, as its validators admit it: a preset pattern, explicit
\* inhale and exhale, or a natural duration.
BreathingPattern(pattern, inhale_ms, exhale_ms, hold_in_ms, hold_out_ms, duration_ms, repetitions) ==
    [pattern |-> pattern, inhale_ms |-> inhale_ms, exhale_ms |-> exhale_ms,
     hold_in_ms |-> hold_in_ms, hold_out_ms |-> hold_out_ms,
     duration_ms |-> duration_ms, repetitions |-> repetitions]

\* Segment with its AudioConfig (fragments, max_duration_ms, allow_shortening).
Segment(id, type, fragments, max_duration_ms, allow_shortening, breathing) ==
    [id |-> id, type |-> type, fragments |-> fragments,
     max_duration_ms |-> max_duration_ms, allow_shortening |-> allow_shortening,
     breathing |-> breathing]

\* BreathingPattern.get_total_cycle_duration_ms (models.py 97-109)
get_total_cycle_duration_ms(b) ==
    IF b.duration_ms # None THEN b.duration_ms[1]
    ELSE IF b.inhale_ms # None /\ b.exhale_ms # None
    THEN b.inhale_ms[1] + b.hold_in_ms + b.exhale_ms[1] + b.hold_out_ms
    ELSE IF b.pattern = Some("box")   THEN 4000 + 4000 + 4000 + 4000
    ELSE IF b.pattern = Some("4-7-8") THEN 4000 + 7000 + 8000
    ELSE IF b.pattern = Some("calm")  THEN 4000 + 6000
    ELSE 10000

\* sum(len(frag) for frag in fragments)
total_chars(fragments) == SumSeq([i \in 1..Len(fragments) |-> Len(fragments[i])])

\* A mutant of the estimate: a breathing segment counts one cycle, whatever
\* its repetitions.
segment_estimate_ms_one_cycle(segment) ==
    IF segment.breathing # None
    THEN get_total_cycle_duration_ms(segment.breathing[1])
    ELSE IF Truthy(segment.max_duration_ms) THEN segment.max_duration_ms[1]
    ELSE total_chars(segment.fragments) * 50

\* One segment's share of estimate_total_duration_ms (models.py 195-208).
\* int(total_chars / 10 * 500) is total_chars * 50 for the texts of the model
\* (the float product is exact below 161 characters).
segment_estimate_ms(segment) ==
    IF segment.breathing # None
    THEN get_total_cycle_duration_ms(segment.breathing[1])
             * segment.breathing[1].repetitions
    ELSE IF Truthy(segment.max_duration_ms) THEN segment.max_duration_ms[1]
    ELSE total_chars(segment.fragments) * 50

\* NarrationScript.estimate_total_duration_ms (models.py 187-210)
estimate_total_duration_ms(script) ==
    SumSeq([i \in 1..Len(script.segments) |-> segment_estimate_ms(script.segments[i])])

\* The segments the scripts of the model are made of.
Intro == Segment("intro", "narration", <<"a", "bb", "c">>, None, TRUE, None)
Outro == Segment("outro", "narration", <<"a">>, None, TRUE, None)
\* a natural breath of half a second: too short
Gasp  == Segment("gasp", "breathing_cycle", <<"a">>, None, TRUE,
                 Some(BreathingPattern(None, None, None, 0, 0, Some(500), 1)))
\* box breathing 101 times, the voice allowed more than one cycle lasts
Box   == Segment("box", "breathing_cycle", <<"bb">>, Some(20000), TRUE,
                 Some(BreathingPattern(Some("box"), None, None, 0, 0, None, 101)))
\* 40 ms for two characters, and no shortening
Tight == Segment("tight", "breathing_cycle", <<"bb">>, Some(40), FALSE,
                 Some(BreathingPattern(Some("calm"), None, None, 0, 0, None, 2)))

\* box breathing; the id has a path separator in it
Nested == Segment("in/box", "breathing_cycle", <<"a">>, None, TRUE,
                  Some(BreathingPattern(Some("box"), None, None, 0, 0, None, 1)))

SegmentPool == {Intro, Outro, Gasp, Box, Tight, Nested}

\* A NarrationScript: the exercise (id, duration_seconds) and 1..MaxSegments
\* segments.
Scripts ==
    {[exercise_id |-> "ex", duration_seconds |-> d, segments |-> segs] :
        d \in {None, Some(60)},
        segs \in UNION {[1..n -> SegmentPool] : n \in 1..MaxSegments}}

-----------------------------------------------------------------------------
(* NarrationValidator (core/validator.py) *)

MAX_EXERCISE_DURATION_SECONDS == 3600
MIN_BREATHING_CYCLE_MS == 1000
MAX_BREATHING_CYCLE_MS == 60000
CHARS_PER_SECOND_SLOW == 10
CHARS_PER_SECOND_FAST == 20

\* The messages a rule adds: errors and warnings, each in order.
Found(errors, warnings) == [errors |-> errors, warnings |-> warnings]
Nothing == Found(<<>>, <<>>)
Both(a, b) == Found(a.errors \o b.errors, a.warnings \o b.warnings)

RECURSIVE All(_)
All(founds) == IF founds = <<>> THEN Nothing ELSE Both(Head(founds), All(Tail(founds)))

Abs(x) == IF x < 0 THEN -x ELSE x

\* _validate_exercise_duration (validator.py 73-91); seconds are compared in
\* milliseconds to keep the arithmetic in the integers.
validate_exercise_duration(script) ==
    LET estimated_duration_ms == estimate_total_duration_ms(script)
    IN  Both(
          IF estimated_duration_ms > MAX_EXERCISE_DURATION_SECONDS * 1000
          THEN Found(<<<<"Exercise duration too long", estimated_duration_ms>>>>, <<>>)
          ELSE Nothing,
          IF Truthy(script.duration_seconds)
             /\ Abs(script.duration_seconds[1] * 1000 - estimated_duration_ms) > 30 * 1000
          THEN Found(<<>>, <<<<"Exercise duration mismatch",
                               script.duration_seconds[1], estimated_duration_ms>>>>)
          ELSE Nothing)

\* A mutant of the breathing rule: a natural duration is never too short.
validate_breathing_pattern_natural_any(segment, idx) ==
    LET breathing == segment.breathing[1]
        total_cycle_ms == get_total_cycle_duration_ms(breathing)
    IN  IF Truthy(breathing.duration_ms)
        THEN IF breathing.duration_ms[1] > MAX_BREATHING_CYCLE_MS
             THEN Found(<<>>, <<<<"breathing duration very long", idx, segment.id,
                                  breathing.duration_ms[1]>>>>)
             ELSE Nothing
        ELSE All(<<
               IF total_cycle_ms < MIN_BREATHING_CYCLE_MS
               THEN Found(<<<<"total breathing cycle too short", idx, segment.id,
                              total_cycle_ms>>>>, <<>>)
               ELSE Nothing,
               IF total_cycle_ms > MAX_BREATHING_CYCLE_MS
               THEN Found(<<>>, <<<<"total breathing cycle very long", idx, segment.id,
                                    total_cycle_ms>>>>)
               ELSE Nothing,
               IF breathing.repetitions > 100
               THEN Found(<<>>, <<<<"very high repetition count", idx, segment.id,
                                    breathing.repetitions>>>>)
               ELSE Nothing >>)

\* _validate_breathing_pattern (validator.py 110-146)
validate_breathing_pattern(segment, idx) ==
    LET breathing == segment.breathing[1]
        total_cycle_ms == get_total_cycle_duration_ms(breathing)
    IN  IF Truthy(breathing.duration_ms)
        THEN All(<<
               IF breathing.duration_ms[1] < MIN_BREATHING_CYCLE_MS
               THEN Found(<<<<"breathing duration too short", idx, segment.id,
                              breathing.duration_ms[1]>>>>, <<>>)
               ELSE Nothing,
               IF breathing.duration_ms[1] > MAX_BREATHING_CYCLE_MS
               THEN Found(<<>>, <<<<"breathing duration very long", idx, segment.id,
                                    breathing.duration_ms[1]>>>>)
               ELSE Nothing >>)
        ELSE All(<<
               IF total_cycle_ms < MIN_BREATHING_CYCLE_MS
               THEN Found(<<<<"total breathing cycle too short", idx, segment.id,
                              total_cycle_ms>>>>, <<>>)
               ELSE Nothing,
               IF total_cycle_ms > MAX_BREATHING_CYCLE_MS
               THEN Found(<<>>, <<<<"total breathing cycle very long", idx, segment.id,
                                    total_cycle_ms>>>>)
               ELSE Nothing,
               IF breathing.repetitions > 100
               THEN Found(<<>>, <<<<"very high repetition count", idx, segment.id,
                                    breathing.repetitions>>>>)
               ELSE Nothing >>)

\* _validate_audio_config (validator.py 148-174): warnings only.
validate_audio_config(segment, idx) ==
    LET fragments == segment.fragments
        chars     == total_chars(fragments)
    IN  All(<<
          IF Len(fragments) > 20
          THEN Found(<<>>, <<<<"many audio fragments", idx, segment.id, Len(fragments)>>>>)
          ELSE Nothing,
          IF chars > 1000
          THEN Found(<<>>, <<<<"long text", idx, segment.id, chars>>>>)
          ELSE Nothing,
          All([frag_idx \in 1..Len(fragments) |->
                 IF Len(fragments[frag_idx]) > 500
                 THEN Found(<<>>, <<<<"fragment long text", idx, segment.id,
                                      frag_idx - 1, Len(fragments[frag_idx])>>>>)
                 ELSE Nothing]) >>)

\* A mutant of the set of ids: the id of the segment just before.
segment_ids_previous_only(script, i) ==
    IF i > 1 THEN {script.segments[i - 1].id} ELSE {}

\* segment_ids when the loop of _validate_segments reaches segment i (from 1):
\* the ids of the segments before it (validator.py 95, 101).
segment_ids(script, i) == {script.segments[j].id : j \in 1..(i - 1)}

\* _validate_segments (validator.py 93-108).  idx counts from 0.
validate_segments(script) ==
    All([i \in 1..Len(script.segments) |->
           LET segment == script.segments[i]
               idx     == i - 1
           IN  All(<<
                 IF segment.id \in segment_ids(script, i)
                 THEN Found(<<<<"Duplicate segment ID", segment.id>>>>, <<>>)
                 ELSE Nothing,
                 IF segment.breathing # None
                 THEN validate_breathing_pattern(segment, idx)
                 ELSE Nothing,
                 validate_audio_config(segment, idx) >>)])

\* (total_chars / 20) * 1000 is computed in floating point: for these counts
\* of characters (of those below 641) the product comes out just above the
\* exact total_chars * 50, for all others at or just below it.
RoundsAbove(chars) == chars \in {161, 322, 327}

\* A mutant of the comparison: the voice is taken to be spoken at twice the
\* fast rate.
exceeds_at_double_rate(chars, max_duration_ms) ==
    (chars * 1000) \div (2 * CHARS_PER_SECOND_FAST) > max_duration_ms

\* validator.py 192: min_duration_ms > segment.audio.max_duration_ms, the
\* float min_duration_ms against the integer max_duration_ms.
exceeds(chars, max_duration_ms) ==
    LET exact == (chars * 1000) \div CHARS_PER_SECOND_FAST
    IN  exact > max_duration_ms
            \/ (exact = max_duration_ms /\ RoundsAbove(chars))

\* _validate_timing_feasibility (validator.py 176-217).  min_duration_ms is
\* (total_chars / CHARS_PER_SECOND_FAST) * 1000.
validate_timing_feasibility(script) ==
    All([i \in 1..Len(script.segments) |->
           LET segment == script.segments[i]
               idx     == i - 1
           IN  IF segment.type = "narration" THEN Nothing
               ELSE IF segment.breathing = None \/ ~Truthy(segment.max_duration_ms)
               THEN Nothing
               ELSE LET max_duration_ms == segment.max_duration_ms[1]
                        min_duration_ms ==
                            (total_chars(segment.fragments) * 1000) \div CHARS_PER_SECOND_FAST
                        cycle_duration_ms ==
                            get_total_cycle_duration_ms(segment.breathing[1])
                    IN  All(<<
                          IF exceeds(total_chars(segment.fragments), max_duration_ms)
                          THEN IF segment.allow_shortening
                               THEN Found(<<>>, <<<<"audio likely to exceed max_duration",
                                      idx, segment.id, min_duration_ms, max_duration_ms>>>>)
                               ELSE Found(<<<<"audio will exceed max_duration",
                                      idx, segment.id, min_duration_ms, max_duration_ms>>>>,
                                      <<>>)
                          ELSE Nothing,
                          IF max_duration_ms > cycle_duration_ms
                          THEN Found(<<>>, <<<<"max_duration exceeds breathing cycle",
                                      idx, segment.id, max_duration_ms, cycle_duration_ms>>>>)
                          ELSE Nothing >>)])

\* A mutant of the validity test: a single error is let through.
is_valid_but_one(errors) == Len(errors) <= 1

\* validator.py 64: is_valid = len(self.errors) == 0
is_valid(errors) == Len(errors) = 0

\* NarrationValidator.__init__ (validator.py 41-44)
NewValidator == [errors |-> <<>>, warnings |-> <<>>]

\* A mutant of the start of validate: the lists are kept.
lists_kept(self) == self

\* validator.py 56-57: self.errors = []; self.warnings = []
lists_reset(self) == [errors |-> <<>>, warnings |-> <<>>]

\* NarrationValidator.validate on an instance (validator.py 46-71): the rules
\* append to the lists of the instance, the result holds copies of them.
validate_on(self, script) ==
    LET found == All(<<validate_exercise_duration(script),
                       validate_segments(script),
                       validate_timing_feasibility(script)>>)
        after == [errors   |-> lists_reset(self).errors \o found.errors,
                  warnings |-> lists_reset(self).warnings \o found.warnings]
    IN  [self   |-> after,
         result |-> [is_valid |-> is_valid(after.errors), errors |-> after.errors,
                     warnings |-> after.warnings]]

\* validate on a validator just made
validate(script) == validate_on(NewValidator, script).result

-----------------------------------------------------------------------------
(* AudioProcessor (processors/audio.py), on durations in milliseconds *)

\* A mutant of the floor: the nearest whole second.
round_down_to_nearest_second(ms) == ((ms + 500) \div 1000) * 1000

\* audio.py 44: (ms // 1000) * 1000
round_down_to_previous_second(ms) == (ms \div 1000) * 1000

\* audio.py 63: math.ceil(ms / 1000) * 1000
round_up_to_next_second(ms) == ((ms + 999) \div 1000) * 1000

\* A mutant of the trimming: the audio is cut at the previous whole second.
trim_to_whole_seconds_cut(audio) == round_down_to_previous_second(audio)

\* trim_to_whole_seconds (audio.py 79-88): silence is added up to the next
\* whole second; audio[:target] keeps at most target milliseconds.
trim_to_whole_seconds(audio) ==
    LET target_duration_ms == round_up_to_next_second(audio)
    IN  IF audio < target_duration_ms
        THEN audio + (target_duration_ms - audio)
        ELSE IF audio <= target_duration_ms THEN audio ELSE target_duration_ms

\* A mutant of the padding: no silence is added.
pad_to_whole_seconds_unpadded(audio) == audio

\* pad_to_whole_seconds (audio.py 104-112)
pad_to_whole_seconds(audio) ==
    LET padding_ms == round_up_to_next_second(audio) - audio
    IN  IF padding_ms > 0 THEN audio + padding_ms ELSE audio

\* What a function on audio gives back: a buffer of dur milliseconds, or the
\* ValueError it raised.
Buffer(dur) == [kind |-> "audio", dur |-> dur]
ValueError  == [kind |-> "ValueError", dur |-> 0]

\* pydub's AudioSegment.append(seg, crossfade): the two buffers overlap by the
\* crossfade, which neither may be shorter than.
append(result, segment, crossfade) ==
    IF crossfade > result \/ crossfade > segment THEN ValueError
    ELSE Buffer(result + segment - crossfade)

\* The loop of stitch over segments[1:] (audio.py 183-193).
RECURSIVE stitch_loop(_, _, _, _)
stitch_loop(result, segments, gap_ms, crossfade_ms) ==
    IF segments = <<>> \/ result.kind # "audio" THEN result
    ELSE LET segment == Head(segments)
             next == IF crossfade_ms > 0
                     THEN append(result.dur, segment, crossfade_ms)
                     ELSE Buffer(result.dur + (IF gap_ms > 0 THEN gap_ms ELSE 0)
                                            + segment)
         IN  stitch_loop(next, Tail(segments), gap_ms, crossfade_ms)

\* A mutant of stitch: a gap follows every segment, the last one too.
stitch_gap_after_each(segments, gap_ms, crossfade_ms) ==
    IF segments = <<>> THEN ValueError
    ELSE LET result == stitch_loop(Buffer(segments[1]), Tail(segments),
                                   gap_ms, crossfade_ms)
         IN  IF result.kind = "audio" /\ crossfade_ms <= 0 /\ gap_ms > 0
             THEN Buffer(result.dur + gap_ms)
             ELSE result

\* stitch (audio.py 154-195)
stitch(segments, gap_ms, crossfade_ms) ==
    IF segments = <<>> THEN ValueError
    ELSE IF Len(segments) = 1 THEN Buffer(segments[1])
    ELSE stitch_loop(Buffer(segments[1]), Tail(segments), gap_ms, crossfade_ms)

-----------------------------------------------------------------------------
(* The state of a generation run (core/generator.py, storage/filesystem.py) *)

\* A mutant of the file name: the segment id alone.
AudioFileName_without_index(segment_id, index) == segment_id \o ".wav"

\* generator.py 249: f"{segment.id}_{index}.wav"
AudioFileName(segment_id, index) == segment_id \o "_" \o ToString(index) \o ".wav"

\* generator.py 170: f"{script.exercise.id}_metadata.json"
MetadataFileName(exercise_id) == exercise_id \o "_metadata.json"

\* Path.name: what follows the last separator of the path.
PathName(path) ==
    LET separators == {i \in 1..Len(path) : SubSeq(path, i, i) = "/"}
    IN  IF separators = {} THEN path
        ELSE SubSeq(path, Max(separators) + 1, Len(path))

\* The files a run of the model can write into the exercise directory, by
\* their paths from it.
OutNames ==
    {AudioFileName(seg.id, idx) : seg \in SegmentPool, idx \in 0..(MaxSegments - 1)}
        \cup {MetadataFileName("ex")}

\* " ".join(fragments)
RECURSIVE Join(_)
Join(fragments) ==
    IF fragments = <<>> THEN ""
    ELSE IF Len(fragments) = 1 THEN fragments[1]
    ELSE fragments[1] \o " " \o Join(Tail(fragments))

\* The exceptions generate lets out (core/exceptions.py).  original is the
\* class of SegmentProcessingError.original_error and cause the class of the
\* exception that one was raised from.
NoException == [kind |-> "", errors |-> <<>>, segment_id |-> "", index |-> 0,
                original |-> "", cause |-> ""]
ValidationError(errors) == [NoException EXCEPT !.kind = "ValidationError",
                                               !.errors = errors]
StorageError == [NoException EXCEPT !.kind = "StorageError"]
SegmentProcessingError(segment_id, index, original_error, cause) ==
    [NoException EXCEPT !.kind = "SegmentProcessingError", !.segment_id = segment_id,
                        !.index = index, !.original = original_error,
                        !.cause = cause]

\* GenerationResult (results.py 60-71)
NoResult == [exercise_id |-> "", segment_count |-> 0, total_duration_ms |-> 0,
             metadata_path |-> "", audio_files |-> <<>>,
             cache_hit_count |-> 0, cache_miss_count |-> 0]

NoScript == [exercise_id |-> "", duration_seconds |-> None, segments |-> <<>>]

\* No metadata document.
NoMetadata == [exercise_id |-> "", segments |-> <<>>, breath_cycles |-> <<>>]

\* No run of generate has started.  pc is the position of the run: "idle",
\* "fragment" (about to synthesise fragment frag of segment seg, both from 0),
\* "export", "metadata", "returned" or "raised".
\* failed_step names the step that raised; dir_before and files_before are
\* the storage as the run found it.  spoken lists, for each fragment
\* synthesised, the index of its segment and the length the TTS client
\* returned; metadata is the document the run wrote.
GenIdle == [pc |-> "idle", script |-> NoScript, seg |-> 0, frag |-> 0,
            fragment_audios |-> <<>>, segment_results |-> <<>>, spoken |-> <<>>,
            metadata |-> NoMetadata,
            warnings |-> <<>>, exc |-> NoException, result |-> NoResult,
            failed_step |-> "", dir_before |-> FALSE,
            files_before |-> [n \in OutNames |-> NoFile]]

\* SegmentResult (results.py 46-54)
SegmentResult(segment_id, segment_index, audio_path, duration_ms, fragment_count) ==
    [segment_id |-> segment_id, segment_index |-> segment_index,
     audio_path |-> audio_path, duration_ms |-> duration_ms,
     fragment_count |-> fragment_count, was_shortened |-> FALSE]

\* What a run does to its collaborators: a call of tts.generate_audio or of a
\* storage method.
Event(op, text, previous_text, next_text, name) ==
    [op |-> op, text |-> text, previous_text |-> previous_text,
     next_text |-> next_text, name |-> name]

NoRun ==
    /\ gen = GenIdle
    /\ dir_created = FALSE
    /\ out_files = [n \in OutNames |-> NoFile]
    /\ events = <<>>
    /\ n_runs = 0
    /\ validator = NewValidator
    /\ returned = <<>>
    /\ proc = [p \in Procs |-> NoProc]

-----------------------------------------------------------------------------
(* MetadataBuilder (processors/metadata.py) *)

\* A dict of guide files by duration, as the sequence of its items in
\* iteration order.
INHALE_AUDIO_MAP ==
    << <<4000, "audio_guide/breathing/4in_minimal.mp3">>,
       <<5000, "audio_guide/breathing/5in_minimal.mp3">>,
       <<6000, "audio_guide/breathing/6in_minimal.mp3">>,
       <<7000, "audio_guide/breathing/7in_minimal.mp3">>,
       <<8000, "audio_guide/breathing/8in_minimal.mp3">> >>

EXHALE_AUDIO_MAP ==
    << <<4000, "audio_guide/breathing/4out_minimal.mp3">>,
       <<5000, "audio_guide/breathing/5out_minimal.mp3">>,
       <<6000, "audio_guide/breathing/6out_minimal.mp3">>,
       <<7000, "audio_guide/breathing/7out_minimal.mp3">>,
       <<8000, "audio_guide/breathing/8out_minimal.mp3">> >>

\* audio_map.keys(), duration_ms in audio_map, audio_map[duration_ms]
MapKeys(audio_map) == {audio_map[i][1] : i \in 1..Len(audio_map)}
MapGet(audio_map, key) ==
    audio_map[CHOOSE i \in 1..Len(audio_map) : audio_map[i][1] = key][2]

\* x or 0, for an Optional[int]
OrZero(x) == IF Truthy(x) THEN x[1] ELSE 0

\* Python truthiness of an Optional[str]: None and "" are false.
TruthyStr(x) == x # None /\ x[1] # ""

\* metadata.py 267
tolerance_ms == 2000

\* The loop of _find_closest_audio_guide over the first n keys (metadata.py
\* 269-275); closest_diff None stands for float('inf').
RECURSIVE closest_scan(_, _, _)
closest_scan(duration_ms, audio_map, n) ==
    IF n = 0 THEN [closest_duration |-> None, closest_diff |-> None]
    ELSE LET before == closest_scan(duration_ms, audio_map, n - 1)
             available_duration == audio_map[n][1]
             diff == Abs(duration_ms - available_duration)
         IN  IF diff <= tolerance_ms
                /\ (before.closest_diff = None \/ diff < before.closest_diff[1])
             THEN [closest_duration |-> Some(available_duration),
                   closest_diff |-> Some(diff)]
             ELSE before

\* A mutant of the lookup: the tolerance is not applied.
find_closest_audio_guide_any_distance(duration_ms, audio_map) ==
    IF duration_ms = 0 \/ audio_map = <<>> THEN None
    ELSE LET diffs == {Abs(duration_ms - k) : k \in MapKeys(audio_map)}
             best  == CHOOSE m \in diffs : \A o \in diffs : m <= o
             first == CHOOSE i \in 1..Len(audio_map) :
                         /\ Abs(duration_ms - audio_map[i][1]) = best
                         /\ \A j \in 1..(i - 1) :
                                Abs(duration_ms - audio_map[j][1]) # best
         IN  Some(audio_map[first][2])

\* _find_closest_audio_guide (metadata.py 247-288)
find_closest_audio_guide(duration_ms, audio_map) ==
    IF duration_ms = 0 \/ audio_map = <<>> THEN None
    ELSE IF duration_ms \in MapKeys(audio_map)
    THEN Some(MapGet(audio_map, duration_ms))
    ELSE LET closest_duration ==
                 closest_scan(duration_ms, audio_map, Len(audio_map)).closest_duration
         IN  IF Truthy(closest_duration)
             THEN Some(MapGet(audio_map, closest_duration[1]))
             ELSE None

\* _create_breathing_guides (metadata.py 204-245).  The guide set is a dict
\* with the keys of the phases that have a guide.
create_breathing_guides(breathing) ==
    IF Truthy(breathing.duration_ms) THEN <<>>
    ELSE LET inhale_ms == OrZero(breathing.inhale_ms)
             exhale_ms == OrZero(breathing.exhale_ms)
             inhale_audio == find_closest_audio_guide(inhale_ms, INHALE_AUDIO_MAP)
             exhale_audio == find_closest_audio_guide(exhale_ms, EXHALE_AUDIO_MAP)
             phases == (IF TruthyStr(inhale_audio) THEN {"breathe_in"} ELSE {})
                           \cup (IF TruthyStr(exhale_audio) THEN {"breathe_out"} ELSE {})
         IN  IF TruthyStr(inhale_audio) \/ TruthyStr(exhale_audio)
             THEN << [audio_breathing_guide_set |->
                        [ph \in phases |->
                           [key |-> IF ph = "breathe_in" THEN inhale_audio[1]
                                    ELSE exhale_audio[1],
                            sound_level |-> 60]]] >>
             ELSE <<>>

\* _create_voices_config (metadata.py 179-202): the names of exercise_dir and
\* of audio_path, the latter given from the exercise directory.
create_voices_config(segment_result, exercise_dir) ==
    << [key |-> "program_panic/" \o PathName(exercise_dir) \o "/"
                   \o PathName(segment_result.audio_path),
        repetitions |-> 1, sound_level |-> 75, timeout |-> 0] >>

\* _create_breath_cycle (metadata.py 137-177)
create_breath_cycle(segment, segment_result, exercise_dir) ==
    LET breathing == segment.breathing[1]
    IN  [breathe_in  |-> OrZero(breathing.inhale_ms),
         breathe_out |-> OrZero(breathing.exhale_ms),
         hold_in     |-> breathing.hold_in_ms,
         hold_out    |-> breathing.hold_out_ms,
         repetitions |-> breathing.repetitions,
         natural     |-> OrZero(breathing.duration_ms),
         voices      |-> create_voices_config(segment_result, exercise_dir),
         audio_breathing_guides |-> create_breathing_guides(breathing),
         audio_biofeedbacks |-> <<>>,
         commands_text      |-> <<>>]

\* A mutant of the search for a segment's result: the first result, whatever
\* its segment.
find_segment_result_any(segment_results, segment_id) ==
    IF segment_results = <<>> THEN None ELSE Some(segment_results[1])

\* metadata.py 126: next((r for r in segment_results if r.segment_id ==
\* segment.id), None)
find_segment_result(segment_results, segment_id) ==
    LET matching == {i \in 1..Len(segment_results) :
                        segment_results[i].segment_id = segment_id}
    IN  IF matching = {} THEN None
        ELSE Some(segment_results[CHOOSE i \in matching : \A j \in matching : i <= j])

\* _build_breath_cycles over the first n segments (metadata.py 110-135)
RECURSIVE build_breath_cycles(_, _, _, _)
build_breath_cycles(script, segment_results, exercise_dir, n) ==
    IF n = 0 THEN <<>>
    ELSE LET breath_cycles == build_breath_cycles(script, segment_results,
                                                  exercise_dir, n - 1)
             segment == script.segments[n]
             segment_result == find_segment_result(segment_results, segment.id)
         IN  IF segment.breathing = None THEN breath_cycles
             ELSE IF segment_result = None THEN breath_cycles
             ELSE Append(breath_cycles,
                         create_breath_cycle(segment, segment_result[1], exercise_dir))

\* _build_segments_metadata (metadata.py 84-108): for every segment id that
\* has results, the records of its results in the order of the list.
build_segments_metadata(segment_results) ==
    LET ids == {segment_results[i].segment_id : i \in 1..Len(segment_results)}
        segment_meta(result) ==
            [segment_index  |-> result.segment_index,
             fragment_count |-> result.fragment_count,
             duration_ms    |-> result.duration_ms,
             audio_file     |-> result.audio_path]
    IN  [id \in ids |->
           LET of_id == SelectSeq(segment_results, LAMBDA r : r.segment_id = id)
           IN  [i \in 1..Len(of_id) |-> segment_meta(of_id[i])]]

\* build_metadata (metadata.py 54-82); the fields the model of a script has.
build_metadata(script, segment_results, exercise_dir) ==
    [exercise_id   |-> script.exercise_id,
     segments      |-> build_segments_metadata(segment_results),
     breath_cycles |-> build_breath_cycles(script, segment_results, exercise_dir,
                                           Len(script.segments))]

-----------------------------------------------------------------------------
(* ElevenLabsClient (clients/elevenlabs.py) *)

\* One answer of the remote endpoint to a POST: an HTTP status with, for 200,
\* the duration of the audio it carries; status 0 (NetFail) stands for a
\* network failure, where requests.post raises RequestException.
Answer(status, dur) == [status |-> status, dur |-> dur]
Failures == {Answer(400, 0), Answer(500, 0), Answer(NetFail, 0)}
Answers  == Failures \cup {Answer(200, d) : d \in Durations}

\* The answers the remote gives to the POSTs of one generate_audio call: at
\* most n of them, none after its first 200.
Exchanges ==
    [n \in 0..(MaxRetries + 1) |->
        IF n = 0 THEN {<<>>}
        ELSE {s \in UNION {[1..m -> Answers] : m \in 1..n} :
                /\ \A i \in 1..(Len(s) - 1) : s[i] \in Failures
                /\ Len(s) = n \/ s[Len(s)] \notin Failures}]

\* What the callers of one client ask for: a text with its previous and next
\* context.  The first two share a cache key; the others differ from the first
\* in one input each.
Requests == {<<"a", None, None>>, <<"a", Some(""), None>>,
             <<"a", None, Some("a")>>, <<"bb", None, None>>}

\* TTSError(message, status_code): status_code 0 stands for None.
TTSError(status_code) == [kind |-> "TTSError", status_code |-> status_code, dur |-> 0]
Audio(dur)            == [kind |-> "audio",    status_code |-> 0,           dur |-> dur]
\* `raise None` is a TypeError; an unlink that fails is an OSError.
TypeError             == [kind |-> "TypeError", status_code |-> 0, dur |-> 0]
OSError               == [kind |-> "OSError",   status_code |-> 0, dur |-> 0]

\* A mutant of the handler: a TTSError raised in the try block passes through
\* with its status code.
except_Exception_reraise(e) == e

\* elevenlabs.py 233-234: `except Exception as e: raise TTSError(f"Unexpected
\* error ...") from e`.  It also catches the TTSError that line 219 raises
\* inside the same try block; the new TTSError is built without a status_code.
except_Exception(e) == TTSError(0)

\* _call_api (elevenlabs.py 209-234) given the remote's answer.  counted: the
\* statistics of lines 214-215 were updated (the POST returned a response).
call_api(answer) ==
    IF answer.status = NetFail
    THEN [out |-> TTSError(0), counted |-> FALSE]                       \* 231-232
    ELSE IF answer.status # 200
    THEN [out |-> except_Exception(TTSError(answer.status)), counted |-> TRUE]
    ELSE [out |-> Audio(answer.dur), counted |-> TRUE]

\* elevenlabs.py 159: if e.status_code and 400 <= e.status_code < 500
IsClientError(e) == e.status_code # 0 /\ 400 <= e.status_code /\ e.status_code < 500

\* A mutant of the retry test: the loop also sleeps after its last attempt.
SleepsBeforeRetry_every_attempt(attempt) == attempt < max_retries

\* elevenlabs.py 164: if attempt < self.max_retries - 1
SleepsBeforeRetry(attempt) == attempt < max_retries - 1

\* A mutant of the backoff: linear instead of exponential.
wait_time_linear(attempt) == retry_backoff_factor * (attempt + 1)

\* elevenlabs.py 165: wait_time = self.retry_backoff_factor ** attempt
wait_time(attempt) == Pow(retry_backoff_factor, attempt)

\* _call_api_with_retry (elevenlabs.py 149-175), from loop index `attempt` on.
\* acc collects the POSTs made, the POSTs counted in the statistics and the
\* sleeps; last_error is None (<<>>) or <<e>>.  An answer the exchange does
\* not hold is never asked for: the loop ends at the first audio.
RECURSIVE call_api_with_retry(_, _, _, _)
call_api_with_retry(attempt, last_error, answers, acc) ==
    IF attempt >= max_retries
    THEN \* line 175: raise last_error
         [out |-> IF last_error = None THEN TypeError ELSE last_error[1],
          net_calls |-> acc.net_calls, counted |-> acc.counted, sleeps |-> acc.sleeps]
    ELSE LET r    == call_api(answers[attempt + 1])
             acc1 == [net_calls |-> acc.net_calls + 1,
                      counted   |-> acc.counted + (IF r.counted THEN 1 ELSE 0),
                      sleeps    |-> acc.sleeps]
         IN  IF r.out.kind = "audio"
             THEN [out |-> r.out, net_calls |-> acc1.net_calls,
                   counted |-> acc1.counted, sleeps |-> acc1.sleeps]
             ELSE IF IsClientError(r.out)
             THEN [out |-> r.out, net_calls |-> acc1.net_calls,
                   counted |-> acc1.counted, sleeps |-> acc1.sleeps]
             ELSE IF SleepsBeforeRetry(attempt)
             THEN call_api_with_retry(attempt + 1, Some(r.out), answers,
                      [acc1 EXCEPT !.sleeps = Append(@, wait_time(attempt))])
             ELSE call_api_with_retry(attempt + 1, Some(r.out), answers, acc1)

NoCall == [op |-> "none", text |-> "", previous_text |-> None, next_text |-> None,
           voice_config |-> "", answers |-> <<>>, audio |-> 0, faults |-> {},
           before |-> <<NoFile, NoFile>>, at |-> 0]
NoRet  == [kind |-> "none", status_code |-> 0, dur |-> 0, hit |-> FALSE,
           net_calls |-> 0, sleeps |-> <<>>, seen_before |-> FALSE]

\* generate_audio (elevenlabs.py 120-140): cache lookup, the retry loop, the
\* cache store.  Reqs are the requests the callers make, FaultSets the sets
\* of I/O failures the environment may inject into this call.
GenerateAudio(Reqs, FaultSets) ==
    /\ n_calls < MaxCalls
    /\ \E rq \in Reqs, F \in FaultSets, answers \in Exchanges[max_retries] :
       LET text          == rq[1]
           previous_text == rq[2]
           next_text     == rq[3]
           rq4           == <<text, previous_text, next_text, voice_config>>
       IN
       \E key \in {compute_key(text, previous_text, next_text, voice_config)} :
       \E looked \in {IF cache_enabled
                      THEN cache_get(blob[key], meta[key], now, F)
                      ELSE [blob |-> blob[key], meta |-> meta[key], audio |-> None]} :
         /\ call' = [op |-> "generate_audio", text |-> text,
                     previous_text |-> previous_text, next_text |-> next_text,
                     voice_config |-> voice_config, answers |-> answers,
                     audio |-> 0, faults |-> F,
                     before |-> <<blob[key], meta[key]>>, at |-> now]
         /\ requested' = requested \cup {rq4}
         /\ IF cache_enabled /\ looked.audio # None
            THEN \* lines 125-128: a hit
                 /\ cache_hits' = cache_hits + 1
                 /\ ret' = [kind |-> "audio", status_code |-> 0,
                            dur |-> looked.audio[1], hit |-> TRUE,
                            net_calls |-> 0, sleeps |-> <<>>,
                            seen_before |-> \E r \in requested : SameInputs(r, rq4)]
                 /\ blob' = [blob EXCEPT ![key] = looked.blob]
                 /\ meta' = [meta EXCEPT ![key] = looked.meta]
                 /\ UNCHANGED <<cache_misses, api_calls, total_characters,
                                remote_failed, set_log>>
            ELSE \* lines 130-140: a miss, or no cache at all
                 \E api \in {call_api_with_retry(0, None, answers,
                                [net_calls |-> 0, counted |-> 0, sleeps |-> <<>>])} :
                 \E stored \in {IF cache_enabled /\ api.out.kind = "audio"
                                THEN cache_set(looked.blob, looked.meta,
                                               api.out.dur, now, F)
                                ELSE [blob |-> looked.blob, meta |-> looked.meta,
                                      raised |-> FALSE]} :
                 \E out \in {IF stored.raised THEN OSError ELSE api.out} :
                   /\ cache_misses' = cache_misses + (IF cache_enabled THEN 1 ELSE 0)
                   /\ api_calls' = api_calls + api.counted
                   /\ total_characters' = total_characters + api.counted * Len(text)
                   /\ remote_failed' =
                          (remote_failed \/ \E i \in 1..api.net_calls :
                                               answers[i] \in Failures)
                   /\ blob' = [blob EXCEPT ![key] = stored.blob]
                   /\ meta' = [meta EXCEPT ![key] = stored.meta]
                   /\ ret' = [kind |-> out.kind, status_code |-> out.status_code,
                              dur |-> out.dur, hit |-> FALSE,
                              net_calls |-> api.net_calls, sleeps |-> api.sleeps,
                              seen_before |-> \E r \in requested : SameInputs(r, rq4)]
                   /\ UNCHANGED <<cache_hits, set_log>>
    /\ n_calls' = n_calls + 1
    /\ UNCHANGED <<max_retries, retry_backoff_factor, cache_enabled, voice_config,
                   now, n_ticks, genVars>>

\* The clock moves on between two operations: by exactly the TTL, or by one
\* second more.
Tick(limit) ==
    /\ n_ticks < limit
    /\ \E d \in {ttl_seconds, ttl_seconds + 1} : now' = now + d
    /\ n_ticks' = n_ticks + 1
    /\ UNCHANGED <<clientVars, fsVars, obsVars, n_calls, genVars>>

\* A client as its constructor leaves it (elevenlabs.py 76-93) over an empty
\* cache directory.
InitClient ==
    /\ max_retries \in 0..MaxRetries
    /\ retry_backoff_factor \in BackoffFactors
    /\ cache_enabled \in BOOLEAN
    /\ voice_config = "v1"
    /\ cache_hits = 0 /\ cache_misses = 0 /\ api_calls = 0 /\ total_characters = 0
    /\ blob = [k \in Keys |-> NoFile]
    /\ meta = [k \in Keys |-> NoFile]
    /\ now = 0
    /\ call = NoCall /\ ret = NoRet
    /\ set_log = <<>> /\ requested = {} /\ remote_failed = FALSE
    /\ n_calls = 0 /\ n_ticks = 0
    /\ NoRun

GenerateAudioReliable == GenerateAudio(Requests, NoFaults)

ClientTick == Tick(MaxClientTicks)

Next == GenerateAudioReliable \/ ClientTick

\* The client over a file system whose operations succeed.
Spec == InitClient /\ [][Next]_vars

-----------------------------------------------------------------------------
(* AudioCache used directly, as tests and tools use it *)

\* What is stored and looked up: one base input and, for each of the four
\* inputs, the base with that input changed; for the two contexts both to a
\* text and to the empty string.
CacheInputs ==
    {<<"a",  None,      None,      "v1">>,
     <<"bb", None,      None,      "v1">>,
     <<"a",  Some("a"), None,      "v1">>,
     <<"a",  Some(""),  None,      "v1">>,
     <<"a",  None,      Some("a"), "v1">>,
     <<"a",  None,      Some(""),  "v1">>,
     <<"a",  None,      None,      "v2">>}

\* AudioCache.set(text, previous_text, next_text, voice_config, audio).
CacheSet(Inputs, Durs, FaultSets, limit) ==
    /\ n_calls < limit
    /\ \E i \in Inputs, dur \in Durs, F \in FaultSets :
       \E key \in {compute_key(i[1], i[2], i[3], i[4])} :
       \E stored \in {cache_set(blob[key], meta[key], dur, now, F)} :
         /\ blob' = [blob EXCEPT ![key] = stored.blob]
         /\ meta' = [meta EXCEPT ![key] = stored.meta]
         /\ call' = [op |-> "set", text |-> i[1], previous_text |-> i[2],
                     next_text |-> i[3], voice_config |-> i[4], answers |-> <<>>,
                     audio |-> dur, faults |-> F,
                     before |-> <<blob[key], meta[key]>>, at |-> now]
         /\ ret' = [NoRet EXCEPT !.kind = IF stored.raised THEN "OSError" ELSE "None"]
         /\ set_log' = Append(set_log, [inputs |-> i, dur |-> dur, at |-> now])
    /\ n_calls' = n_calls + 1
    /\ UNCHANGED <<clientVars, now, requested, remote_failed, n_ticks, genVars>>

\* AudioCache.get(text, previous_text, next_text, voice_config).
CacheGet(Inputs, FaultSets, limit) ==
    /\ n_calls < limit
    /\ \E i \in Inputs, F \in FaultSets :
       \E key \in {compute_key(i[1], i[2], i[3], i[4])} :
       \E looked \in {cache_get(blob[key], meta[key], now, F)} :
         /\ blob' = [blob EXCEPT ![key] = looked.blob]
         /\ meta' = [meta EXCEPT ![key] = looked.meta]
         /\ call' = [op |-> "get", text |-> i[1], previous_text |-> i[2],
                     next_text |-> i[3], voice_config |-> i[4], answers |-> <<>>,
                     audio |-> 0, faults |-> F,
                     before |-> <<blob[key], meta[key]>>, at |-> now]
         /\ ret' = IF looked.audio = None
                   THEN [NoRet EXCEPT !.kind = "None"]
                   ELSE [NoRet EXCEPT !.kind = "audio", !.dur = looked.audio[1],
                                      !.hit = TRUE]
    /\ n_calls' = n_calls + 1
    /\ UNCHANGED <<clientVars, now, set_log, requested, remote_failed, n_ticks, genVars>>

\* A cache over an empty directory (cache.py 35-46).  The client's fields play
\* no part.
InitCache ==
    /\ max_retries = 3 /\ retry_backoff_factor = 2 /\ cache_enabled = TRUE
    /\ voice_config = "v1"
    /\ cache_hits = 0 /\ cache_misses = 0 /\ api_calls = 0 /\ total_characters = 0
    /\ blob = [k \in Keys |-> NoFile]
    /\ meta = [k \in Keys |-> NoFile]
    /\ now = 0
    /\ call = NoCall /\ ret = NoRet
    /\ set_log = <<>> /\ requested = {} /\ remote_failed = FALSE
    /\ n_calls = 0 /\ n_ticks = 0
    /\ NoRun

CacheSetReliable == CacheSet(CacheInputs, Durations, NoFaults, MaxCacheOps)
CacheGetReliable == CacheGet(CacheInputs, NoFaults, MaxCacheOps)
CacheTick        == Tick(MaxTicks)

NextCache == CacheSetReliable \/ CacheGetReliable \/ CacheTick

\* The cache over a file system whose operations succeed.
SpecCache == InitCache /\ [][NextCache]_vars

\* The failures that matter to a store and to a lookup.
SetFaults == {F \in SomeFaults : F \subseteq {"write_blob_open", "write_blob_data",
                 "write_meta_open", "write_meta_data", "unlink_blob", "unlink_meta"}}
GetFaults == {F \in SomeFaults : F \subseteq {"read_meta", "read_blob",
                 "unlink_blob", "unlink_meta"}}

\* Under failures one entry is stored and looked up again and again.
FaultyInputs == {<<"a", None, None, "v1">>}

CacheSetFaulty == CacheSet(FaultyInputs, {1500}, SetFaults, MaxFaultyOps)
CacheGetFaulty == CacheGet(FaultyInputs, GetFaults, MaxFaultyOps)

NextCacheFaults == CacheSetFaulty \/ CacheGetFaulty \/ CacheTick

\* The cache over a file system whose operations may fail.
SpecCacheFaults == InitCache /\ [][NextCacheFaults]_vars

-----------------------------------------------------------------------------
(* The client over a cache directory whose I/O may fail *)

\* A client with a cache and a single attempt per call.
InitFaults ==
    /\ max_retries = 1 /\ retry_backoff_factor = 2 /\ cache_enabled = TRUE
    /\ voice_config = "v1"
    /\ cache_hits = 0 /\ cache_misses = 0 /\ api_calls = 0 /\ total_characters = 0
    /\ blob = [k \in Keys |-> NoFile]
    /\ meta = [k \in Keys |-> NoFile]
    /\ now = 0
    /\ call = NoCall /\ ret = NoRet
    /\ set_log = <<>> /\ requested = {} /\ remote_failed = FALSE
    /\ n_calls = 0 /\ n_ticks = 0
    /\ NoRun

FaultyRequests == {<<"a", None, None>>}

GenerateAudioFaulty == GenerateAudio(FaultyRequests, SomeFaults)

NextFaults == GenerateAudioFaulty \/ ClientTick

SpecFaults == InitFaults /\ [][NextFaults]_vars

-----------------------------------------------------------------------------
(* AudioCache.get and AudioCache.set of several processes on one entry, one
   file-system operation at a time *)

\* The key all processes use.
RaceKey == compute_key("a", None, None, "v1")

\* The process moves on to another statement / its call ends.
Goes(p, pc)  == [proc EXCEPT ![p].pc = pc]
Ends(p, out) == [proc EXCEPT ![p].pc = "idle", ![p].out = out]

raceRest == <<clientVars, now, obsVars, n_calls, n_ticks, runVars, validator, returned>>

\* A process calls get or set (cache.py 89-91, 143-145).
ProcCall ==
    /\ \E p \in Procs, op \in {"get", "set"} :
         /\ proc[p].pc = "idle"
         /\ proc[p].n < MaxProcCalls
         /\ proc' = [proc EXCEPT ![p] =
                        [op |-> op, out |-> "running", n |-> proc[p].n + 1,
                         pc |-> IF op = "get" THEN "get_exists_blob"
                                ELSE "set_open_blob"]]
    /\ UNCHANGED <<fsVars, raceRest>>

\* Path.exists(): in get (cache.py 94), in _delete_entry (173, 175) and in the
\* cleanup of set (163, 165).
ProcExists ==
    /\ \E p \in Procs :
       \E pc \in {proc[p].pc} :
       \E b \in {Exists(blob[RaceKey])}, m \in {Exists(meta[RaceKey])} :
         /\ pc \in {"get_exists_blob", "get_exists_meta", "delete_exists_blob",
                    "delete_exists_meta", "cleanup_exists_blob", "cleanup_exists_meta"}
         /\ proc' =
              IF pc = "get_exists_blob"
              THEN IF b THEN Goes(p, "get_exists_meta") ELSE Ends(p, "None")
              ELSE IF pc = "get_exists_meta"
              THEN IF m THEN Goes(p, "get_read_meta") ELSE Ends(p, "None")
              ELSE IF pc = "delete_exists_blob"
              THEN IF b THEN Goes(p, "delete_unlink_blob") ELSE Goes(p, "delete_exists_meta")
              ELSE IF pc = "delete_exists_meta"
              THEN IF m THEN Goes(p, "delete_unlink_meta") ELSE Ends(p, "None")
              ELSE IF pc = "cleanup_exists_blob"
              THEN IF b THEN Goes(p, "cleanup_unlink_blob") ELSE Goes(p, "cleanup_exists_meta")
              ELSE IF m THEN Goes(p, "cleanup_unlink_meta") ELSE Ends(p, "None")
    /\ UNCHANGED <<fsVars, raceRest>>

\* Path.unlink(): FileNotFoundError when the file is gone.  In _delete_entry
\* it is raised inside the try of get and becomes a miss (cache.py 109, 117);
\* in the cleanup of set nothing catches it (164, 166).
ProcUnlink ==
    /\ \E p \in Procs :
       \E pc \in {proc[p].pc} :
         /\ pc \in {"delete_unlink_blob", "delete_unlink_meta",
                    "cleanup_unlink_blob", "cleanup_unlink_meta"}
         /\ IF pc \in {"delete_unlink_blob", "cleanup_unlink_blob"}
            THEN /\ blob' = [blob EXCEPT ![RaceKey] = NoFile]
                 /\ UNCHANGED meta
                 /\ proc' = IF Exists(blob[RaceKey])
                            THEN Goes(p, IF pc = "delete_unlink_blob"
                                         THEN "delete_exists_meta"
                                         ELSE "cleanup_exists_meta")
                            ELSE Ends(p, IF pc = "delete_unlink_blob"
                                         THEN "None" ELSE "raised")
            ELSE /\ meta' = [meta EXCEPT ![RaceKey] = NoFile]
                 /\ UNCHANGED blob
                 /\ proc' = IF Exists(meta[RaceKey]) \/ pc = "delete_unlink_meta"
                            THEN Ends(p, "None")
                            ELSE Ends(p, "raised")
    /\ UNCHANGED raceRest

\* open + json.load of the sidecar, the TTL test and AudioSegment.from_wav
\* (cache.py 97-115): a file that is missing or not completely written raises
\* inside the try and becomes a miss.
ProcRead ==
    /\ \E p \in Procs :
       \E pc \in {proc[p].pc} :
         /\ pc \in {"get_read_meta", "get_read_blob"}
         /\ proc' =
              IF pc = "get_read_meta"
              THEN IF meta[RaceKey].st # "ok" THEN Ends(p, "None")
                   ELSE IF Expired(now - meta[RaceKey].val)
                   THEN Goes(p, "delete_exists_blob")
                   ELSE Goes(p, "get_read_blob")
              ELSE IF blob[RaceKey].st = "ok" THEN Ends(p, "audio")
                   ELSE Ends(p, "None")
    /\ UNCHANGED <<fsVars, raceRest>>

\* audio.export and open + json.dump in set (cache.py 149-159): each opens
\* its file for writing, which creates or truncates it, and then writes it;
\* either step may fail, and then set goes to its cleanup (160-166).  What is
\* written into a file that was unlinked meanwhile is in no directory.
ProcWrite ==
    /\ \E p \in Procs, fails \in BOOLEAN :
       \E pc \in {proc[p].pc} :
         /\ pc \in {"set_open_blob", "set_write_blob", "set_open_meta", "set_write_meta"}
         /\ IF fails
            THEN /\ proc' = Goes(p, "cleanup_exists_blob")
                 /\ UNCHANGED fsVars
            ELSE IF pc = "set_open_blob"
            THEN /\ blob' = [blob EXCEPT ![RaceKey] = PartialFile]
                 /\ proc' = Goes(p, "set_write_blob")
                 /\ UNCHANGED meta
            ELSE IF pc = "set_write_blob"
            THEN /\ blob' = [blob EXCEPT ![RaceKey] = IF Exists(@) THEN File(1500) ELSE @]
                 /\ proc' = Goes(p, "set_open_meta")
                 /\ UNCHANGED meta
            ELSE IF pc = "set_open_meta"
            THEN /\ meta' = [meta EXCEPT ![RaceKey] = PartialFile]
                 /\ proc' = Goes(p, "set_write_meta")
                 /\ UNCHANGED blob
            ELSE /\ meta' = [meta EXCEPT ![RaceKey] = IF Exists(@) THEN File(now) ELSE @]
                 /\ proc' = Ends(p, "None")
                 /\ UNCHANGED blob
    /\ UNCHANGED raceRest

\* The entry of the key when the processes start: none, one stored just now,
\* or one older than the TTL.
InitRace ==
    /\ max_retries = 3 /\ retry_backoff_factor = 2 /\ cache_enabled = TRUE
    /\ voice_config = "v1"
    /\ cache_hits = 0 /\ cache_misses = 0 /\ api_calls = 0 /\ total_characters = 0
    /\ now = ttl_seconds + 1
    /\ \E entry \in {<<NoFile, NoFile>>, <<File(1500), File(now)>>,
                     <<File(1500), File(0)>>} :
         /\ blob = [k \in Keys |-> IF k = RaceKey THEN entry[1] ELSE NoFile]
         /\ meta = [k \in Keys |-> IF k = RaceKey THEN entry[2] ELSE NoFile]
    /\ call = NoCall /\ ret = NoRet
    /\ set_log = <<>> /\ requested = {} /\ remote_failed = FALSE
    /\ n_calls = 0 /\ n_ticks = 0
    /\ NoRun

NextRace == ProcCall \/ ProcExists \/ ProcUnlink \/ ProcRead \/ ProcWrite

\* Two processes on one cache directory.
SpecRace == InitRace /\ [][NextRace]_vars

-----------------------------------------------------------------------------
(* VoiceNarrationGenerator.generate (core/generator.py 121-261) *)

\* What tts.generate_audio does with one fragment: it returns audio or raises,
\* a TTSError or (a failed cache cleanup) something else.
TtsOutcomes == {Audio(d) : d \in SpokenDurations} \cup {TTSError(0), OSError}

\* What a write of the storage does: it succeeds, fails leaving the file as it
\* was, or fails after the file was created or truncated.
WriteOutcomes == {"ok", "failed", "partial"}

\* The run stops with exception e, raised by the named step.
Raise(e, step) == [gen EXCEPT !.pc = "raised", !.exc = e, !.failed_step = step]

\* generator.py 136-149: validate, raise ValidationError or log the warnings
\* and create the exercise directory.
GenStart ==
    /\ gen.pc \in {"idle", "returned", "raised"}
    /\ n_runs < MaxRuns
    /\ \E script \in Scripts :
       \E validation \in {validate_on(validator, script).result} :
       \E fresh \in {[GenIdle EXCEPT !.script = script, !.dir_before = dir_created,
                                     !.files_before = out_files]} :
         /\ validator' = validate_on(validator, script).self
         /\ IF ~validation.is_valid
            THEN /\ gen' = [fresh EXCEPT !.pc = "raised", !.failed_step = "validate",
                                         !.exc = ValidationError(validation.errors)]
                 /\ events' = <<>>
                 /\ UNCHANGED dir_created
            ELSE /\ events' = <<Event("create_exercise_dir", "", None, None,
                                      script.exercise_id)>>
                 /\ \E created \in BOOLEAN :
                      IF created
                      THEN /\ dir_created' = TRUE
                           /\ gen' = [fresh EXCEPT !.pc = "fragment",
                                                   !.warnings = validation.warnings]
                      ELSE /\ UNCHANGED dir_created
                           /\ gen' = [fresh EXCEPT !.pc = "raised",
                                                   !.failed_step = "create_exercise_dir",
                                                   !.warnings = validation.warnings,
                                                   !.exc = StorageError]
    /\ n_runs' = n_runs + 1
    /\ UNCHANGED <<out_files, cacheVars, returned, proc>>

\* generator.py 218: " ".join(fragments[:frag_idx]) if frag_idx > 0 else None
previous_text(fragments, frag_idx) ==
    IF frag_idx > 0 THEN Some(Join(SubSeq(fragments, 1, frag_idx))) ELSE None

\* A mutant of the next context: the one fragment that follows.
next_text_one_fragment(fragments, frag_idx) ==
    IF frag_idx < Len(fragments) - 1 THEN Some(fragments[frag_idx + 2]) ELSE None

\* generator.py 219-223: " ".join(fragments[frag_idx + 1:]) unless the
\* fragment is the last
next_text(fragments, frag_idx) ==
    IF frag_idx < Len(fragments) - 1
    THEN Some(Join(SubSeq(fragments, frag_idx + 2, Len(fragments))))
    ELSE None

\* _process_segment, one turn of its loop (generator.py 214-235): the TTS call
\* with its context, then trim and pad.  A TTS failure is wrapped in TTSError
\* (228-229) and every failure in SegmentProcessingError (162-163).
GenFragment ==
    /\ gen.pc = "fragment"
    /\ LET segment       == gen.script.segments[gen.seg + 1]
           fragments     == segment.fragments
           frag_idx      == gen.frag
           fragment_text == fragments[frag_idx + 1]
           last          == frag_idx = Len(fragments) - 1
       IN  /\ events' = Append(events, Event("generate_audio", fragment_text,
                                             previous_text(fragments, frag_idx),
                                             next_text(fragments, frag_idx), ""))
           /\ \E outcome \in TtsOutcomes, processed \in BOOLEAN :
                IF outcome.kind # "audio"
                THEN /\ processed
                     /\ gen' = Raise(SegmentProcessingError(segment.id, gen.seg,
                                         "TTSError", outcome.kind), "generate_audio")
                ELSE IF ~processed
                THEN gen' = Raise(SegmentProcessingError(segment.id, gen.seg,
                                                         "Exception", ""), "quantize")
                ELSE gen' = [gen EXCEPT
                               !.fragment_audios =
                                   Append(@, pad_to_whole_seconds(
                                                 trim_to_whole_seconds(outcome.dur))),
                               !.spoken = Append(@, <<gen.seg, outcome.dur>>),
                               !.frag = IF last THEN @ ELSE @ + 1,
                               !.pc   = IF last THEN "export" ELSE "fragment"]
    /\ UNCHANGED <<dir_created, out_files, n_runs, cacheVars, validator, returned, proc>>

\* _process_segment after its loop (generator.py 237-260): stitch and export;
\* then the next segment, or the metadata after the last one.
GenExport ==
    /\ gen.pc = "export"
    /\ LET segment == gen.script.segments[gen.seg + 1]
           index   == gen.seg
           name    == AudioFileName(segment.id, index)
           segment_audio == stitch(gen.fragment_audios, 0, 0).dur
           last    == index = Len(gen.script.segments) - 1
       IN  \E stitched \in BOOLEAN, written \in WriteOutcomes :
             IF ~stitched
             THEN /\ written = "ok"
                  /\ gen' = Raise(SegmentProcessingError(segment.id, index, "Exception",
                                                         ""), "stitch")
                  /\ UNCHANGED <<events, out_files>>
             ELSE /\ events' = Append(events, Event("write_audio", "", None, None, name))
                  /\ out_files' =
                        [out_files EXCEPT ![name] =
                            IF written = "ok" THEN File(segment_audio)
                            ELSE IF written = "partial" THEN PartialFile ELSE @]
                  /\ gen' =
                        IF written # "ok"
                        THEN Raise(SegmentProcessingError(segment.id, index,
                                       "StorageError", "OSError"), "write_audio")
                        ELSE [gen EXCEPT
                                !.segment_results =
                                    Append(@, SegmentResult(segment.id, index, name,
                                              segment_audio, Len(segment.fragments))),
                                !.fragment_audios = <<>>,
                                !.frag = 0,
                                !.seg  = IF last THEN @ ELSE @ + 1,
                                !.pc   = IF last THEN "metadata" ELSE "fragment"]
    /\ UNCHANGED <<dir_created, n_runs, cacheVars, validator, returned, proc>>

\* generator.py 165-197: build and write the metadata, return the result.  The
\* metadata file is modelled by the number of segments it describes, the
\* document written is kept in gen.metadata.
GenMetadata ==
    /\ gen.pc = "metadata"
    /\ LET name == MetadataFileName(gen.script.exercise_id)
           results == gen.segment_results
       IN  /\ events' = Append(events, Event("write_json", "", None, None, name))
           /\ \E written \in WriteOutcomes :
                /\ out_files' =
                      [out_files EXCEPT ![name] =
                          IF written = "ok" THEN File(Len(results))
                          ELSE IF written = "partial" THEN PartialFile ELSE @]
                /\ gen' =
                      IF written # "ok" THEN Raise(StorageError, "write_json")
                      ELSE [gen EXCEPT
                              !.pc = "returned",
                              !.metadata = build_metadata(gen.script, results,
                                                          gen.script.exercise_id),
                              !.result =
                                 [exercise_id   |-> gen.script.exercise_id,
                                  segment_count |-> Len(results),
                                  total_duration_ms |->
                                      SumSeq([i \in 1..Len(results) |->
                                                 results[i].duration_ms]),
                                  metadata_path |-> name,
                                  audio_files   |-> [i \in 1..Len(results) |->
                                                        results[i].audio_path],
                                  cache_hit_count  |-> cache_hits,
                                  cache_miss_count |-> cache_misses]]
    /\ UNCHANGED <<dir_created, n_runs, cacheVars, validator, returned, proc>>

\* generate_narration (api.py 110-115) hands the exception of generate to its
\* caller as it is; main (__main__.py 171-199) picks the branch that reports it.
main_reports(exc) ==
    IF exc.kind = "FileNotFoundError" THEN "File not found"
    ELSE IF exc.kind = "ValidationError" THEN "Validation error"
    ELSE IF exc.kind = "TTSError" THEN "TTS generation error"
    ELSE IF exc.kind = "ValueError" THEN "Configuration error"
    ELSE "Unexpected error"

\* A generator over an empty output directory.
InitGen ==
    /\ max_retries = 3 /\ retry_backoff_factor = 2 /\ cache_enabled = TRUE
    /\ voice_config = "v1"
    /\ cache_hits = 0 /\ cache_misses = 0 /\ api_calls = 0 /\ total_characters = 0
    /\ blob = [k \in Keys |-> NoFile]
    /\ meta = [k \in Keys |-> NoFile]
    /\ now = 0
    /\ call = NoCall /\ ret = NoRet
    /\ set_log = <<>> /\ requested = {} /\ remote_failed = FALSE
    /\ n_calls = 0 /\ n_ticks = 0
    /\ NoRun

NextGen == GenStart \/ GenFragment \/ GenExport \/ GenMetadata

SpecGen == InitGen /\ [][NextGen]_vars

-----------------------------------------------------------------------------
(* Calls of the pure functions: MetadataBuilder *)

\* pydantic's check of a BreathingPattern (models.py 70-90)
validate_pattern_or_explicit(b) ==
    LET has_pattern  == b.pattern # None
        has_explicit == b.inhale_ms # None /\ b.exhale_ms # None
        has_natural  == b.duration_ms # None
    IN  /\ has_pattern \/ has_explicit \/ has_natural
        /\ b.pattern = Some("natural") => has_natural

\* Everything but the observed call.
restVars == <<clientVars, fsVars, now, set_log, requested, remote_failed,
              n_calls, n_ticks, genVars>>

\* The observation of a call of a function: what it was given.  The functions
\* keep no state, so a behaviour makes one call.
Applied(op, args) == [op |-> op, args |-> args]

\* Guide tables: every order of every choice of these keys.
GuideKeys == {0, 4000, 6000}
GuideTables ==
    {t \in UNION {[1..n -> {<<k, "g" \o ToString(k)>> : k \in GuideKeys}] :
                     n \in 0..MaxGuides} :
        \A i, j \in 1..Len(t) : i # j => t[i][1] # t[j][1]}
TargetDurations == {0, 1000, 2000, 2001, 4000, 4500, 5000, 6500, 8000, 8001}

PhaseDurations == {None, Some(0), Some(3500), Some(4000), Some(10000), Some(10001)}
BreathingPatterns ==
    {b \in {BreathingPattern(p, i, e, 0, 0, d, 1) :
               p \in {None, Some("box"), Some("natural")},
               i \in PhaseDurations, e \in PhaseDurations,
               d \in {None, Some(0), Some(5000)}} :
        validate_pattern_or_explicit(b)}

\* Scripts of narration and breathing segments, and lists of results that
\* cover some of their segments, in any order.
MetadataScripts ==
    {[exercise_id |-> "ex", duration_seconds |-> None, segments |-> segs] :
        segs \in UNION {[1..n -> {Intro, Gasp, Box}] : n \in 1..MaxMetadataSegments}}
ResultPool ==
    {SegmentResult(seg.id, idx, AudioFileName(seg.id, idx), 3000, Len(seg.fragments)) :
        seg \in {Intro, Gasp, Box}, idx \in 0..1}
ResultLists == UNION {[1..n -> ResultPool] : n \in 0..MaxResults}

FindClosestAudioGuide ==
    \E duration_ms \in TargetDurations, audio_map \in GuideTables :
        /\ call = NoCall
        /\ call' = Applied("_find_closest_audio_guide", <<duration_ms, audio_map>>)
        /\ ret' = find_closest_audio_guide(duration_ms, audio_map)
        /\ UNCHANGED restVars

CreateBreathingGuides ==
    \E breathing \in BreathingPatterns :
        /\ call = NoCall
        /\ call' = Applied("_create_breathing_guides", <<breathing>>)
        /\ ret' = create_breathing_guides(breathing)
        /\ UNCHANGED restVars

BuildMetadata ==
    \E script \in MetadataScripts, segment_results \in ResultLists :
        /\ call = NoCall
        /\ call' = Applied("build_metadata", <<script, segment_results>>)
        /\ ret' = build_metadata(script, segment_results, script.exercise_id)
        /\ UNCHANGED restVars

NextMetadata == FindClosestAudioGuide \/ CreateBreathingGuides \/ BuildMetadata

SpecMetadata == InitGen /\ [][NextMetadata]_vars

-----------------------------------------------------------------------------
(* Calls of the pure functions: AudioProcessor *)

\* Durations and buffer lengths in milliseconds, around the whole seconds.
Milliseconds == 0..MaxMs

\* Lists of buffers to stitch, with the gaps and crossfades asked for; a
\* crossfade of 600 ms is longer than the shortest buffer.
StitchLengths == {500, 1000, 2000}
StitchLists == UNION {[1..n -> StitchLengths] : n \in 0..MaxStitched}
Gaps == {0, 500}
Crossfades == {0, 100, 600}

RoundSeconds ==
    \E ms \in Milliseconds :
        /\ call = NoCall
        /\ call' = Applied("round", <<ms>>)
        /\ ret' = [down |-> round_down_to_previous_second(ms),
                   up |-> round_up_to_next_second(ms),
                   down_of_up |->
                       round_down_to_previous_second(round_up_to_next_second(ms))]
        /\ UNCHANGED restVars

TrimToWholeSeconds ==
    \E audio \in Milliseconds :
        /\ call = NoCall
        /\ call' = Applied("trim_to_whole_seconds", <<audio>>)
        /\ ret' = Buffer(trim_to_whole_seconds(audio))
        /\ UNCHANGED restVars

PadToWholeSeconds ==
    \E audio \in Milliseconds :
        /\ call = NoCall
        /\ call' = Applied("pad_to_whole_seconds", <<audio>>)
        /\ ret' = Buffer(pad_to_whole_seconds(audio))
        /\ UNCHANGED restVars

Stitch ==
    \E segments \in StitchLists, gap_ms \in Gaps, crossfade_ms \in Crossfades :
        /\ call = NoCall
        /\ call' = Applied("stitch", <<segments, gap_ms, crossfade_ms>>)
        /\ ret' = stitch(segments, gap_ms, crossfade_ms)
        /\ UNCHANGED restVars

NextAudio == RoundSeconds \/ TrimToWholeSeconds \/ PadToWholeSeconds \/ Stitch

SpecAudio == InitGen /\ [][NextAudio]_vars

-----------------------------------------------------------------------------
(* Calls of the pure functions: NarrationValidator *)

\* A narration of 200 ms less than an hour, by its max_duration_ms.
Long == Segment("long", "narration", <<"a">>, Some(3599800), TRUE, None)

Ninety == Segment("ninety", "narration", <<"a">>, Some(90000), TRUE, None)

\* Scripts around the longest exercise allowed, with and without repeated
\* segment ids, with no duration_seconds and with one of 0, 60 or 120 s.
ValidatedScripts ==
    {[exercise_id |-> "ex", duration_seconds |-> duration_seconds, segments |-> segs] :
        duration_seconds \in {None, Some(0), Some(60), Some(120)},
        segs \in UNION {[1..n -> {Long, Intro, Outro, Box, Gasp, Ninety}] :
                           n \in 1..MaxValidated}}

\* A text of 161 characters: the shortest for which (chars / 20) * 1000
\* comes out above chars * 50.
Text161 ==
    "breathe in slowly and let the air fill your chest breathe in slowly and let the air fill your chest breathe in slowly and let the air fill your chest breathe in "

\* Breathing patterns of each style around the limits of the rules: explicit
\* phases of 900, 1000 and 60001 ms and more, a preset, natural durations from
\* 0 to 60001 ms, at and above 100 repetitions.
RulePatterns ==
    {b \in {BreathingPattern(pattern, phases[1], phases[2], hold_in_ms, 0,
                             duration_ms, repetitions) :
              pattern \in {None, Some("box"), Some("natural")},
              phases \in {<<None, None>>, <<Some(400), Some(500)>>,
                          <<Some(30000), Some(30001)>>},
              hold_in_ms \in {0, 100},
              duration_ms \in {None, Some(0), Some(999), Some(1000),
                               Some(60000), Some(60001)},
              repetitions \in {100, 101}} :
        validate_pattern_or_explicit(b)}

\* Segments of both types carrying such a pattern, with a voice of 2 or 161
\* characters and a max_duration_ms below, at and above what the voice needs.
RuleSegments ==
    {Segment("s", type, fragments, max_duration_ms, allow_shortening, Some(b)) :
        type \in {"narration", "breathing_cycle"},
        fragments \in {<<"bb">>, <<Text161>>},
        max_duration_ms \in {None, Some(99), Some(100), Some(8050), Some(20000)},
        allow_shortening \in BOOLEAN,
        b \in RulePatterns}

RuleScripts ==
    {[exercise_id |-> "ex", duration_seconds |-> None, segments |-> <<segment>>] :
        segment \in RuleSegments}

ValidateRules ==
    \E script \in RuleScripts :
        /\ call = NoCall
        /\ call' = Applied("validate", <<script>>)
        /\ ret' = validate(script)
        /\ UNCHANGED restVars

Validate ==
    \E script \in ValidatedScripts :
        /\ call = NoCall
        /\ call' = Applied("validate", <<script>>)
        /\ ret' = validate(script)
        /\ UNCHANGED restVars

NextValidator == Validate \/ ValidateRules

SpecValidator == InitGen /\ [][NextValidator]_vars

\* Scripts for a validator that is used again: with an error, with two, with
\* warnings, with a warning for the duration, and with nothing to report.
ReusedScripts ==
    {[exercise_id |-> "ex", duration_seconds |-> None, segments |-> <<Gasp>>],
     [exercise_id |-> "ex", duration_seconds |-> None, segments |-> <<Intro, Intro, Gasp>>],
     [exercise_id |-> "ex", duration_seconds |-> None, segments |-> <<Box>>],
     [exercise_id |-> "ex", duration_seconds |-> Some(60), segments |-> <<Ninety, Outro>>],
     [exercise_id |-> "ex", duration_seconds |-> None, segments |-> <<Intro>>]}

\* One more validate on the same NarrationValidator (validator.py 46-71).
ValidateAgain ==
    /\ Len(returned) < MaxValidations
    /\ \E script \in ReusedScripts :
       \E done \in {validate_on(validator, script)} :
         /\ validator' = done.self
         /\ returned' = Append(returned, [script |-> script, result |-> done.result])
         /\ call' = Applied("validate", <<script>>)
         /\ ret' = done.result
    /\ UNCHANGED <<clientVars, fsVars, now, set_log, requested, remote_failed,
                   n_calls, n_ticks, runVars, proc>>

NextValidatorReuse == ValidateAgain

SpecValidatorReuse == InitGen /\ [][NextValidatorReuse]_vars

-----------------------------------------------------------------------------
(* The retry policy of the client *)

IsGenerate == call.op = "generate_audio"

\* The generate_audio call just made went to the network (cache miss or no cache).
WentToNetwork == IsGenerate /\ ~ret.hit

\* The failures among the answers of the latest call: all of them come before
\* its first 200.
FailedAnswers == {i \in 1..Len(call.answers) : call.answers[i] \in Failures}
Retryable(a)  == a.status = NetFail \/ (500 <= a.status /\ a.status < 600)

Min(a, b) == IF a <= b THEN a ELSE b

\* C1 (as claimed): when the remote answers the first request of a
\* generate_audio call that goes to the network with a 4xx status, the client
\* makes exactly one network call, never sleeps and raises, for every
\* max_retries >= 1.
C1_ClientErrorAbortsAfterOneCall ==
    (/\ WentToNetwork /\ max_retries >= 1
     /\ 400 <= call.answers[1].status /\ call.answers[1].status < 500)
        => (ret.net_calls = 1 /\ ret.sleeps = <<>> /\ ret.kind = "TTSError")

\* C2: for every max_retries N >= 1 and backoff factor f, when the remote
\* fails retryably on its first k attempts and then succeeds, generate_audio
\* makes min(k+1, N) network calls and sleeps min(k, N-1) times, the i-th sleep
\* (from 0) lasting f^i seconds; it returns the audio if k < N and raises a
\* TTSError otherwise.
C2_RetryWithExponentialBackoff ==
    (/\ WentToNetwork /\ max_retries >= 1
     /\ \A i \in FailedAnswers : Retryable(call.answers[i]))
        => LET k == Cardinality(FailedAnswers)
               N == max_retries
           IN  /\ ret.net_calls = Min(k + 1, N)
               /\ Len(ret.sleeps) = Min(k, N - 1)
               /\ \A i \in 1..Len(ret.sleeps) :
                      ret.sleeps[i] = Pow(retry_backoff_factor, i - 1)
               /\ k < N  => ret.kind = "audio" /\ ret.dur = call.answers[k + 1].dur
               /\ k >= N => ret.kind = "TTSError"

\* Two retryable failures, then the audio, with max_retries = 3: three calls
\* and two sleeps, the second longer than the first.
C2_Witness ==
    /\ WentToNetwork /\ max_retries = 3
    /\ Cardinality(FailedAnswers) = 2 /\ \A i \in FailedAnswers : Retryable(call.answers[i])
    /\ ret.kind = "audio" /\ ret.net_calls = 3
    /\ Len(ret.sleeps) = 2 /\ ret.sleeps[2] = retry_backoff_factor * ret.sleeps[1]

\* C3 (as claimed): on a client with caching enabled, entries within their
\* TTL and a remote that always succeeds, a call whose key was requested
\* before is a hit that counts in cache_hits and makes no network call; any
\* other call is a miss that counts in cache_misses, makes the network call
\* and has stored the audio when it returns; so api_calls is the number of
\* distinct keys requested so far.
C3_CacheHitsSaveNetworkCalls ==
    (cache_enabled /\ ~remote_failed /\ now <= ttl_seconds)
        => /\ api_calls = DistinctInputs(requested)
           /\ cache_misses = DistinctInputs(requested)
           /\ cache_hits + cache_misses = n_calls
           /\ IsGenerate =>
                LET key == compute_key(call.text, call.previous_text,
                                       call.next_text, call.voice_config)
                IN  /\ ret.hit <=> ret.seen_before
                    /\ ret.kind = "audio"
                    /\ ret.hit => ret.net_calls = 0
                    /\ ~ret.hit => /\ ret.net_calls = 1
                                   /\ blob[key] = File(ret.dur)
                                   /\ meta[key].st = "ok"

\* C3, for the clients that make an attempt at all: the same with
\* max_retries >= 1.
C3_WithAtLeastOneAttempt == max_retries >= 1 => C3_CacheHitsSaveNetworkCalls

\* A hit: the second call repeats the first one's key, with "" for None.
C3_Witness ==
    /\ cache_enabled /\ ~remote_failed /\ now <= ttl_seconds
    /\ IsGenerate /\ ret.hit /\ ret.seen_before
    /\ call.previous_text = Some("")
    /\ cache_hits = 1 /\ cache_misses = 1 /\ api_calls = 1

-----------------------------------------------------------------------------
(* The cache round trip and its TTL *)

IsGet == call.op = "get"
IsSet == call.op = "set"

CallInputs == <<call.text, call.previous_text, call.next_text, call.voice_config>>
CallKey    == compute_key(call.text, call.previous_text, call.next_text,
                          call.voice_config)

\* The stores so far whose inputs are those of the latest call, an absent and
\* an empty context counting as the same / taken literally.
SameStores    == {i \in 1..Len(set_log) : SameInputs(set_log[i].inputs, CallInputs)}
LiteralStores == {i \in 1..Len(set_log) : set_log[i].inputs = CallInputs}

\* x and y differ in exactly one of the four inputs.
DiffersInOne(x, y) == Cardinality({c \in 1..4 : x[c] # y[c]}) = 1

\* C4 (amended): a get whose four inputs are those of an earlier set, the
\* latest such set being no older than the TTL, returns audio of the duration
\* that set stored; a get whose inputs are those of no set so far is a miss.
\* Here an absent context (None) and an empty one ("") are the same input.
C4_SetThenGetRoundTrip ==
    IsGet =>
        /\ (SameStores # {} /\ call.at - set_log[Max(SameStores)].at <= ttl_seconds)
              => (ret.hit /\ ret.dur = set_log[Max(SameStores)].dur)
        /\ SameStores = {} => ~ret.hit

\* C4 (as claimed): the same, the four inputs taken literally, so that a get
\* that differs from every set so far in exactly one input is a miss.
C4_AsClaimed ==
    IsGet =>
        /\ (LiteralStores # {} /\ call.at - set_log[Max(LiteralStores)].at <= ttl_seconds)
              => (ret.hit /\ ret.dur = set_log[Max(LiteralStores)].dur)
        /\ (set_log # <<>> /\ \A i \in 1..Len(set_log) :
                                 DiffersInOne(set_log[i].inputs, CallInputs))
              => ~ret.hit

\* Two sets of the same inputs with different audio, then the get: it returns
\* what the second set stored.
C4_Witness ==
    /\ IsGet /\ ret.hit /\ Len(set_log) = 2
    /\ set_log[1].inputs = CallInputs /\ set_log[2].inputs = CallInputs
    /\ set_log[1].dur # set_log[2].dur /\ ret.dur = set_log[2].dur

\* C5: a get on an existing entry (blob and sidecar) older than the TTL is a
\* miss and removes both files; on one no older than the TTL it is a hit and
\* leaves both files as they were.  The age counts from the latest set.
C5_ExpiredEntryRemovedOnLookup ==
    (IsGet /\ Exists(call.before[1]) /\ Exists(call.before[2])) =>
        /\ SameStores # {}
        /\ LET stored == set_log[Max(SameStores)]
               age    == call.at - stored.at
           IN  /\ age > ttl_seconds =>
                     ~ret.hit /\ ~Exists(blob[CallKey]) /\ ~Exists(meta[CallKey])
               /\ age <= ttl_seconds =>
                     /\ ret.hit /\ ret.dur = stored.dur
                     /\ blob[CallKey] = call.before[1]
                     /\ meta[CallKey] = call.before[2]

\* An entry one second older than the TTL is looked up and is gone.
C5_Witness ==
    /\ IsGet /\ Exists(call.before[1]) /\ Exists(call.before[2])
    /\ SameStores # {} /\ call.at - set_log[Max(SameStores)].at = ttl_seconds + 1
    /\ ~ret.hit /\ ~Exists(blob[CallKey]) /\ ~Exists(meta[CallKey])

-----------------------------------------------------------------------------
(* Failures of the cache directory *)

\* The remote answered the latest call's request with audio.
RemoteSucceeds ==
    /\ call.answers # <<>> /\ Len(call.answers) <= max_retries
    /\ call.answers[Len(call.answers)].status = 200

\* C6 (as claimed): a generate_audio call on a client with a cache whose remote
\* call succeeds returns audio, whatever fails in the cache layer during the
\* lookup, the store or the cleanup.
C6_CacheFailureNeverBreaksGeneration ==
    (IsGenerate /\ cache_enabled /\ RemoteSucceeds) => ret.kind = "audio"

\* The failures of the latest call that hit the writing of the pair.
WriteFaults == call.faults \cap {"write_blob_open", "write_blob_data",
                                 "write_meta_open", "write_meta_data"}

\* C7: after AudioCache.set has returned, the blob and the sidecar of its key
\* both exist or both do not, whatever failed while writing them.
C7_NoBrokenPairAfterSet ==
    (IsSet /\ ret.kind = "None") =>
        (Exists(blob[CallKey]) <=> Exists(meta[CallKey]))

\* The sidecar's write failed after the blob was written over an existing
\* entry; set returned and nothing is left of the pair.
C7_Witness ==
    /\ IsSet /\ ret.kind = "None" /\ "write_meta_data" \in call.faults
    /\ "write_blob_open" \notin call.faults /\ "write_blob_data" \notin call.faults
    /\ Exists(call.before[1]) /\ Exists(call.before[2])
    /\ ~Exists(blob[CallKey]) /\ ~Exists(meta[CallKey])

-----------------------------------------------------------------------------
(* Failures of a generation run *)

Started == gen.pc # "idle"

GenSegments == gen.script.segments

\* The calls of tts.generate_audio the run has made.
TtsCalls == {i \in 1..Len(events) : events[i].op = "generate_audio"}

\* The run has changed nothing in the storage.
StorageUntouched == dir_created = gen.dir_before /\ out_files = gen.files_before

\* C8: a run on a script with validation errors has raised ValidationError
\* with all of them, in the validator's order, having called neither the TTS
\* client nor the storage; a run on a script without errors, whatever its
\* warnings, has gone on to create the exercise directory.
C8_InvalidScriptRaisesBeforeAnyEffect ==
    Started =>
        LET validation == validate(gen.script)
        IN  /\ validation.errors # <<>> =>
                  /\ gen.pc = "raised" /\ gen.exc.kind = "ValidationError"
                  /\ gen.exc.errors = validation.errors
                  /\ events = <<>> /\ StorageUntouched
            /\ validation.errors = <<>> =>
                  /\ gen.exc.kind # "ValidationError"
                  /\ gen.warnings = validation.warnings
                  /\ events # <<>> /\ events[1].op = "create_exercise_dir"

\* Two segments with the same id, both breathing too short: three errors, all
\* carried by the exception, and nothing done.
C8_Witness ==
    /\ gen.pc = "raised" /\ gen.exc.kind = "ValidationError"
    /\ gen.script.segments = <<Gasp, Gasp>>
    /\ gen.exc.errors = << <<"breathing duration too short", 0, "gasp", 500>>,
                           <<"Duplicate segment ID", "gasp">>,
                           <<"breathing duration too short", 1, "gasp", 500>> >>
    /\ events = <<>> /\ ~dir_created

\* The run failed while processing a segment.
FailedInSegment ==
    gen.pc = "raised"
        /\ gen.failed_step \in {"generate_audio", "quantize", "stitch", "write_audio"}

\* The fragments of the segments before index k.
RECURSIVE FragmentsBefore(_)
FragmentsBefore(k) ==
    IF k = 0 THEN 0 ELSE Len(GenSegments[k].fragments) + FragmentsBefore(k - 1)

\* C9 (as claimed): when processing the segment at index k fails, generate
\* raises SegmentProcessingError with that segment's id and k, has made no TTS
\* call beyond the failing fragment, has written no audio file for segment k or
\* a later one and no metadata file, and has left the files of segments
\* 0..k-1 as it wrote them.
C9_FailedSegmentAbortsRun ==
    FailedInSegment =>
        LET k == gen.seg
        IN  /\ gen.exc.kind = "SegmentProcessingError"
            /\ gen.exc.segment_id = GenSegments[k + 1].id /\ gen.exc.index = k
            /\ Cardinality(TtsCalls) <= FragmentsBefore(k) + gen.frag + 1
            /\ \A j \in k..(Len(GenSegments) - 1) :
                   LET name == AudioFileName(GenSegments[j + 1].id, j)
                   IN  out_files[name] = gen.files_before[name]
            /\ LET name == MetadataFileName(gen.script.exercise_id)
               IN  out_files[name] = gen.files_before[name]
            /\ \A j \in 0..(k - 1) :
                   out_files[AudioFileName(GenSegments[j + 1].id, j)]
                       = File(gen.segment_results[j + 1].duration_ms)

\* C10 (as claimed): when the TTS client fails during a run, the exception
\* that reaches the caller of generate, and through generate_narration the
\* CLI, is a TTSError, reported by the CLI's TTS branch.
C10_TtsFailureReportedAsTtsError ==
    (gen.pc = "raised" /\ gen.failed_step = "generate_audio") =>
        /\ gen.exc.kind = "TTSError"
        /\ main_reports(gen.exc) = "TTS generation error"

-----------------------------------------------------------------------------
(* The TTS calls and the output of a generation run *)

\* The calls of tts.generate_audio the run has made, in the order made.
TtsEvents == SelectSeq(events, LAMBDA e : e.op = "generate_audio")

\* Fragments a..b of f, each two neighbours separated by one space.
RECURSIVE Spaced(_, _, _)
Spaced(f, a, b) == IF a = b THEN f[a] ELSE Spaced(f, a, b - 1) \o " " \o f[b]

\* The call a segment with fragments f is to get for its i-th fragment
\* (i from 1).
ExpectedCall(f, i) ==
    Event("generate_audio", f[i],
          IF i = 1 THEN None ELSE Some(Spaced(f, 1, i - 1)),
          IF i = Len(f) THEN None ELSE Some(Spaced(f, i + 1, Len(f))),
          "")

\* The calls the first k segments of the run's script are to get.
RECURSIVE ExpectedCalls(_)
ExpectedCalls(k) ==
    IF k = 0 THEN <<>>
    ELSE ExpectedCalls(k - 1)
            \o [i \in 1..Len(GenSegments[k].fragments) |->
                   ExpectedCall(GenSegments[k].fragments, i)]

IsPrefix(s, t) == Len(s) <= Len(t) /\ s = SubSeq(t, 1, Len(s))

\* C11: the TTS calls of a run are, in order, the calls of its segments in
\* script order, each segment's fragments in fragment order, call i with the
\* text of fragment i, the earlier fragments of the segment joined by single
\* spaces as previous context (none for the first) and the later ones as next
\* context (none for the last); a segment about to be exported has had exactly
\* one call per fragment, and so has every segment of a run that got to the
\* metadata.
C11_OneCallPerFragmentWithContext ==
    /\ IsPrefix(TtsEvents, ExpectedCalls(Len(GenSegments)))
    /\ gen.pc = "fragment" => Len(TtsEvents) = FragmentsBefore(gen.seg) + gen.frag
    /\ gen.pc = "export" => TtsEvents = ExpectedCalls(gen.seg + 1)
    /\ gen.pc \in {"metadata", "returned"} => TtsEvents = ExpectedCalls(Len(GenSegments))

\* A run over a segment of three fragments and one of a single fragment has
\* returned after these four calls.
C11_Witness ==
    /\ gen.pc = "returned"
    /\ GenSegments = <<Intro, Outro>>
    /\ TtsEvents = << Event("generate_audio", "a", None, Some("bb c"), ""),
                      Event("generate_audio", "bb", Some("a"), Some("c"), ""),
                      Event("generate_audio", "c", Some("a bb"), None, ""),
                      Event("generate_audio", "a", None, None, "") >>

\* The writes of the run into the storage, in the order made.
WriteEvents == SelectSeq(events, LAMBDA e : e.op \in {"write_audio", "write_json"})

\* The audio file of the segment at index i (from 0), named as the claim has it.
SegmentFile(i) == GenSegments[i + 1].id \o "_" \o ToString(i) \o ".wav"

-----------------------------------------------------------------------------
(* The metadata document *)

IsBuildMetadata == call.op = "build_metadata"

\* The j-th smallest member of a set of numbers.
Nth(Q, j) == CHOOSE i \in Q : Cardinality({q \in Q : q < i}) = j - 1

\* The script segments (from 1) that have a breathing pattern and a result
\* with their id in the list of results.
WithBreathCycle(script, segment_results) ==
    {i \in 1..Len(script.segments) :
        /\ script.segments[i].breathing # None
        /\ \E r \in 1..Len(segment_results) :
               segment_results[r].segment_id = script.segments[i].id}

\* C13: the breath_cycles of build_metadata hold one entry for each script
\* segment that has a breathing pattern and a result of the same segment id,
\* in script order (the j-th entry carries the pattern of the j-th such
\* segment and plays the file of a result of that segment), and nothing for
\* the other segments.
C13_BreathCyclesFollowBreathingSegments ==
    IsBuildMetadata =>
        LET script == call.args[1]
            segment_results == call.args[2]
            Q == WithBreathCycle(script, segment_results)
            breath_cycles == ret.breath_cycles
        IN  /\ Len(breath_cycles) = Cardinality(Q)
            /\ \A j \in 1..Len(breath_cycles) :
                   LET segment == script.segments[Nth(Q, j)]
                       cycle == breath_cycles[j]
                   IN  /\ cycle.repetitions = segment.breathing[1].repetitions
                       /\ cycle.natural = OrZero(segment.breathing[1].duration_ms)
                       /\ Len(cycle.voices) = 1
                       /\ \E r \in 1..Len(segment_results) :
                              /\ segment_results[r].segment_id = segment.id
                              /\ cycle.voices[1].key
                                     = "program_panic/ex/" \o segment_results[r].audio_path

\* A narration segment and two breathing segments, with results for the
\* narration and for the second breathing segment only: one breath cycle, the
\* box breathing with its audio file.
C13_Witness ==
    /\ IsBuildMetadata
    /\ call.args[1].segments = <<Intro, Gasp, Box>>
    /\ call.args[2] = << SegmentResult("box", 1, "box_1.wav", 3000, 1),
                         SegmentResult("intro", 0, "intro_0.wav", 3000, 3) >>
    /\ Len(ret.breath_cycles) = 1
    /\ ret.breath_cycles[1].repetitions = 101
    /\ ret.breath_cycles[1].voices[1].key = "program_panic/ex/box_1.wav"

IsFindClosest == call.op = "_find_closest_audio_guide"

\* The guide the lookup is to give for target d in a table: the exact entry,
\* else the entry of the first of the nearest keys if that is within 2000 ms.
NearestGuide(d, table) ==
    IF d = 0 \/ table = <<>> THEN None
    ELSE IF \E i \in 1..Len(table) : table[i][1] = d
    THEN Some(table[CHOOSE i \in 1..Len(table) : table[i][1] = d][2])
    ELSE LET dist(i) == Abs(d - table[i][1])
             nearest == CHOOSE i \in 1..Len(table) :
                            /\ \A j \in 1..Len(table) : dist(i) <= dist(j)
                            /\ \A j \in 1..(i - 1) : dist(j) > dist(i)
         IN  IF dist(nearest) <= 2000 THEN Some(table[nearest][2]) ELSE None

\* C14 (as claimed): _find_closest_audio_guide(d, table) returns None for
\* d = 0 and for an empty table, table[d] when d is a key, otherwise the entry
\* of the nearest key, the first in iteration order among equidistant ones,
\* if that key is at most 2000 ms away, and None if it is further away.
C14_ClosestGuideWithinTolerance ==
    IsFindClosest => ret = NearestGuide(call.args[1], call.args[2])

\* The same for the tables that have no entry for 0 ms.
C14_WithoutZeroKey ==
    (IsFindClosest /\ 0 \notin MapKeys(call.args[2]))
        => ret = NearestGuide(call.args[1], call.args[2])

\* 5000 ms is as far from 6000 as from 4000: the entry met first is returned.
C14_Witness ==
    /\ IsFindClosest
    /\ call.args = << 5000, << <<6000, "g6000">>, <<4000, "g4000">> >> >>
    /\ ret = Some("g6000")

IsCreateGuides == call.op = "_create_breathing_guides"

\* A pattern given as a single natural duration (the preset "natural" needs
\* that duration).
NaturalStyle(b) == b.pattern = Some("natural") \/ b.duration_ms # None

\* A phase of d ms (None counting as 0) has a guide in the table: d is not 0
\* and a key of the table is at most 2000 ms away.
Resolves(d, table) ==
    /\ OrZero(d) # 0
    /\ \E k \in MapKeys(table) : Abs(OrZero(d) - k) <= 2000

\* The guides list as the claim describes it, for the phases that resolve.
GuidesAsDescribed(guides, inhale, exhale) ==
    IF ~inhale /\ ~exhale THEN guides = <<>>
    ELSE /\ Len(guides) = 1
         /\ DOMAIN guides[1] = {"audio_breathing_guide_set"}
         /\ DOMAIN guides[1].audio_breathing_guide_set
                = {ph \in {"breathe_in", "breathe_out"} :
                      (ph = "breathe_in" /\ inhale) \/ (ph = "breathe_out" /\ exhale)}

\* C15 (as claimed): the audio_breathing_guides of a breathing pattern are
\* empty when the pattern is natural-style or neither phase resolves to a
\* guide; otherwise they are one guide set with a breathe_in entry exactly
\* when the inhale resolves and a breathe_out entry exactly when the exhale
\* resolves.
C15_GuideSetHoldsResolvedPhases ==
    IsCreateGuides =>
        LET breathing == call.args[1]
        IN  IF NaturalStyle(breathing) THEN ret = <<>>
            ELSE GuidesAsDescribed(ret, Resolves(breathing.inhale_ms, INHALE_AUDIO_MAP),
                                        Resolves(breathing.exhale_ms, EXHALE_AUDIO_MAP))

\* The same with the natural patterns taken to be those of a duration other
\* than 0.
C15_WithPositiveNaturalDuration ==
    IsCreateGuides =>
        LET breathing == call.args[1]
        IN  IF Truthy(breathing.duration_ms) THEN ret = <<>>
            ELSE GuidesAsDescribed(ret, Resolves(breathing.inhale_ms, INHALE_AUDIO_MAP),
                                        Resolves(breathing.exhale_ms, EXHALE_AUDIO_MAP))

\* An inhale with a guide and an exhale too long for one: a guide set with
\* breathe_in alone.
C15_Witness ==
    /\ IsCreateGuides
    /\ call.args[1] = BreathingPattern(None, Some(3500), Some(10001), 0, 0, None, 1)
    /\ ret = << [audio_breathing_guide_set |->
                   [ph \in {"breathe_in"} |->
                      [key |-> "audio_guide/breathing/4in_minimal.mp3",
                       sound_level |-> 60]]] >>

-----------------------------------------------------------------------------
(* Whole seconds *)

IsRound == call.op = "round"

IsWholeSeconds(ms) == ms % 1000 = 0

\* C16 (as claimed): round_down(round_up(d)) <= d <= round_up(d) and both
\* roundings of d are multiples of 1000.
C16_AsClaimed ==
    IsRound =>
        /\ ret.down_of_up <= call.args[1] /\ call.args[1] <= ret.up
        /\ IsWholeSeconds(ret.down) /\ IsWholeSeconds(ret.up)

\* C16: round_down(d) <= d <= round_up(d), both are multiples of 1000 less
\* than a second away from d, and rounding the rounded-up duration down
\* leaves it as it is.
C16_RoundingBracketsDuration ==
    IsRound =>
        LET d == call.args[1]
        IN  /\ ret.down <= d /\ d <= ret.up
            /\ IsWholeSeconds(ret.down) /\ IsWholeSeconds(ret.up)
            /\ d - ret.down < 1000 /\ ret.up - d < 1000
            /\ ret.down_of_up = ret.up

\* 1500 ms lies between 1000 and 2000, and 2000 rounded down is 2000.
C16_Witness ==
    /\ IsRound /\ call.args[1] = 1500
    /\ ret.down = 1000 /\ ret.up = 2000 /\ ret.down_of_up = 2000

IsTrim == call.op = "trim_to_whole_seconds"
IsPad  == call.op = "pad_to_whole_seconds"

\* C17: trim_to_whole_seconds and pad_to_whole_seconds return a buffer whose
\* length is the smallest multiple of 1000 that is at least the length L of
\* the input; the result is never shorter than the input and a whole number
\* of seconds keeps its length.
C17_TrimAndPadReachNextWholeSecond ==
    (IsTrim \/ IsPad) =>
        LET L == call.args[1]
        IN  /\ ret.kind = "audio"
            /\ IsWholeSeconds(ret.dur) /\ ret.dur >= L
            /\ \A m \in 0..(MaxMs + 1000) :
                   (IsWholeSeconds(m) /\ m >= L) => ret.dur <= m
            /\ IsWholeSeconds(L) => ret.dur = L

\* A buffer of 1001 ms is padded to 2000 ms.
C17_Witness == IsPad /\ call.args[1] = 1001 /\ ret = Buffer(2000)

IsStitch == call.op = "stitch"

\* C18: stitch raises on an empty list and returns the only buffer of a
\* one-element list as it is; for two or more buffers without crossfade the
\* result is as long as the buffers together plus gap_ms between each two
\* neighbours; with a crossfade no gap is inserted, whatever gap_ms is: each
\* two neighbours overlap by the crossfade, which no buffer may be shorter
\* than.
C18_StitchLength ==
    IsStitch =>
        LET segments == call.args[1]
            gap_ms == call.args[2]
            crossfade_ms == call.args[3]
            n == Len(segments)
        IN  /\ n = 0 => ret.kind = "ValueError"
            /\ n = 1 => ret = Buffer(segments[1])
            /\ (n >= 2 /\ crossfade_ms = 0) =>
                   ret = Buffer(SumSeq(segments) + gap_ms * (n - 1))
            /\ (n >= 2 /\ crossfade_ms > 0) =>
                   IF \E i \in 1..n : segments[i] < crossfade_ms
                   THEN ret.kind = "ValueError"
                   ELSE ret = Buffer(SumSeq(segments) - crossfade_ms * (n - 1))

\* Three buffers with half a second between them.
C18_Witness ==
    /\ IsStitch /\ call.args = << <<1000, 2000, 500>>, 500, 0 >>
    /\ ret = Buffer(4500)

\* Two buffers crossfaded, a gap asked for as well: no gap in the result.
C18_WitnessCrossfade ==
    /\ IsStitch /\ call.args = << <<1000, 2000>>, 500, 100 >>
    /\ ret = Buffer(2900)

-----------------------------------------------------------------------------
(* Rules of the validator *)

IsValidate == call.op = "validate"

\* The errors of a validation that start with the given words.
ErrorsOf(kind) == SelectSeq(ret.errors, LAMBDA e : e[1] = kind)

\* The estimate of a segment, as the claim words it, in milliseconds.
ClaimedEstimate(segment) ==
    IF segment.breathing # None
    THEN LET b == segment.breathing[1]
             cycle == IF b.duration_ms # None THEN b.duration_ms[1]
                      ELSE IF b.inhale_ms # None /\ b.exhale_ms # None
                      THEN b.inhale_ms[1] + b.hold_in_ms + b.exhale_ms[1] + b.hold_out_ms
                      ELSE IF b.pattern = Some("box") THEN 16000
                      ELSE IF b.pattern = Some("4-7-8") THEN 19000
                      ELSE 10000
         IN  cycle * b.repetitions
    ELSE IF segment.max_duration_ms # None /\ segment.max_duration_ms[1] > 0
    THEN segment.max_duration_ms[1]
    ELSE 50 * SumSeq([i \in 1..Len(segment.fragments) |-> Len(segment.fragments[i])])

\* C19: validate reports exactly one "Exercise duration too long" error, and
\* so is_valid false, when the estimates of the segments add up to more than
\* 3600 s, and no such error when they add up to 3600 s or less.
C19_TooLongExerciseIsAnError ==
    IsValidate =>
        LET segments == call.args[1].segments
            total_ms == SumSeq([i \in 1..Len(segments) |-> ClaimedEstimate(segments[i])])
        IN  IF total_ms > 3600 * 1000
            THEN /\ ErrorsOf("Exercise duration too long")
                        = << <<"Exercise duration too long", total_ms>> >>
                 /\ ~ret.is_valid
            ELSE ErrorsOf("Exercise duration too long") = <<>>

\* An hour and 50 ms: one error and nothing else wrong.
C19_Witness ==
    /\ IsValidate /\ call.args[1].segments = <<Long, Intro, Outro>>
    /\ ret.errors = << <<"Exercise duration too long", 3600050>> >>
    /\ ~ret.is_valid

\* An hour exactly: no error.
C19_WitnessAtLimit ==
    /\ IsValidate /\ call.args[1].segments = <<Long, Intro>>
    /\ ret.errors = <<>> /\ ret.is_valid

\* The segment breathes naturally in less than a second.
Gasping(segment) ==
    /\ segment.breathing # None
    /\ segment.breathing[1].duration_ms \in {Some(500), Some(999)}

\* How many segments of the script have the id.
Sharing(segments, id) == Cardinality({i \in 1..Len(segments) : segments[i].id = id})

\* C20: for every segment id, validate reports one "Duplicate segment ID"
\* error less than there are segments with that id, in the order of the
\* repeated segments; it goes on to check the segments after a duplicate (a
\* breath too short is reported for each segment that has it); no duplicate
\* error is reported when all ids differ, and a script with a duplicate is
\* not valid.
C20_EveryDuplicateIdIsAnError ==
    IsValidate =>
        LET segments == call.args[1].segments
            ids == {segments[i].id : i \in 1..Len(segments)}
            duplicates == ErrorsOf("Duplicate segment ID")
            repeated == SelectSeq([i \in 1..Len(segments) |-> i],
                                  LAMBDA i : \E j \in 1..(i - 1) :
                                                 segments[j].id = segments[i].id)
        IN  /\ \A id \in ids :
                   Len(SelectSeq(duplicates, LAMBDA e : e[2] = id))
                       = Sharing(segments, id) - 1
            /\ duplicates = [k \in 1..Len(repeated) |->
                               <<"Duplicate segment ID", segments[repeated[k]].id>>]
            /\ Len(ErrorsOf("breathing duration too short"))
                   = Cardinality({i \in 1..Len(segments) : Gasping(segments[i])})
            /\ Cardinality(ids) = Len(segments) => duplicates = <<>>
            /\ duplicates # <<>> => ~ret.is_valid

\* Three segments with one id: two errors.
C20_Witness ==
    /\ IsValidate /\ call.args[1].segments = <<Intro, Intro, Intro>>
    /\ ret.errors = << <<"Duplicate segment ID", "intro">>,
                       <<"Duplicate segment ID", "intro">> >>
    /\ ~ret.is_valid

\* A duplicate in the middle: the segment after it is checked all the same.
C20_WitnessContinues ==
    /\ IsValidate /\ call.args[1].segments = <<Intro, Intro, Gasp>>
    /\ ret.errors = << <<"Duplicate segment ID", "intro">>,
                       <<"breathing duration too short", 2, "gasp", 500>> >>

\* The messages of the list with one of the tags, about the segment at idx.
About(list, tags, idx) ==
    SelectSeq(list, LAMBDA e : e[1] \in tags /\ e[2] = idx)

TooShort == {"breathing duration too short", "total breathing cycle too short"}

VeryLong == {"breathing duration very long", "total breathing cycle very long"}

\* C21: for every segment with a breathing pattern, validate reports a
\* "too short" error exactly when the total cycle duration of the pattern
\* is below 1000 ms, and a "very long" warning exactly when it is above
\* 60000 ms; each at most once, and never the one as the other.
C21_CycleLimits ==
    IsValidate =>
        LET segments == call.args[1].segments
        IN  \A i \in 1..Len(segments) :
                segments[i].breathing # None =>
                    LET total == get_total_cycle_duration_ms(segments[i].breathing[1])
                    IN  /\ Len(About(ret.errors, TooShort, i - 1))
                               = IF total < 1000 THEN 1 ELSE 0
                        /\ Len(About(ret.warnings, VeryLong, i - 1))
                               = IF total > 60000 THEN 1 ELSE 0
                        /\ About(ret.warnings, TooShort, i - 1) = <<>>
                        /\ About(ret.errors, VeryLong, i - 1) = <<>>

\* The pattern of the only segment of the validated script.
OnlyPattern == call.args[1].segments[1].breathing[1]

IsValidateRules ==
    /\ IsValidate
    /\ call.args[1] \in RuleScripts

\* A natural duration of 999 ms is an error, and the script is not valid.
C21_Witness ==
    /\ IsValidateRules
    /\ OnlyPattern.duration_ms = Some(999)
    /\ About(ret.errors, TooShort, 0)
           = << <<"breathing duration too short", 0, "s", 999>> >>
    /\ ~ret.is_valid

\* A natural duration of 0 ms is too short as well.
C21_WitnessZero ==
    /\ IsValidateRules
    /\ OnlyPattern.duration_ms = Some(0)
    /\ About(ret.errors, TooShort, 0)
           = << <<"total breathing cycle too short", 0, "s", 0>> >>

\* Explicit phases of 1000 ms in all pass, those of 60001 ms draw a warning.
C21_WitnessAtLimit ==
    /\ IsValidateRules
    /\ OnlyPattern.duration_ms = None
    /\ OnlyPattern.inhale_ms = Some(400) /\ OnlyPattern.hold_in_ms = 100
    /\ About(ret.errors, TooShort, 0) = <<>>

C21_WitnessVeryLong ==
    /\ IsValidateRules
    /\ OnlyPattern.duration_ms = None
    /\ OnlyPattern.inhale_ms = Some(30000) /\ OnlyPattern.hold_in_ms = 0
    /\ About(ret.warnings, VeryLong, 0)
           = << <<"total breathing cycle very long", 0, "s", 60001>> >>

\* C22: for every segment with a breathing pattern of any style, validate
\* emits a warning about the repetition count when repetitions > 100, and
\* no error about it.
C22_HighRepetitionsWarn ==
    IsValidate =>
        LET segments == call.args[1].segments
        IN  \A i \in 1..Len(segments) :
                (/\ segments[i].breathing # None
                 /\ segments[i].breathing[1].repetitions > 100)
                    => /\ About(ret.warnings, {"very high repetition count"}, i - 1) # <<>>
                       /\ About(ret.errors, {"very high repetition count"}, i - 1) = <<>>

\* A natural breath of one second repeated 101 times: valid, and no word
\* about the repetitions.
C22_Witness ==
    /\ IsValidateRules
    /\ OnlyPattern.duration_ms = Some(1000) /\ OnlyPattern.repetitions = 101
    /\ OnlyPattern.pattern = Some("natural")
    /\ call.args[1].segments[1].max_duration_ms = None
    /\ ret = [is_valid |-> TRUE, errors |-> <<>>, warnings |-> <<>>]

\* The same repetitions of the box preset draw the warning.
C22_WitnessStructured ==
    /\ IsValidateRules
    /\ OnlyPattern.duration_ms = None /\ OnlyPattern.repetitions = 101
    /\ OnlyPattern.pattern = Some("box") /\ OnlyPattern.inhale_ms = None
    /\ About(ret.warnings, {"very high repetition count"}, 0)
           = << <<"very high repetition count", 0, "s", 101>> >>

Timing ==
    {"audio likely to exceed max_duration", "audio will exceed max_duration",
     "max_duration exceeds breathing cycle"}

\* C23: for a breathing_cycle segment with max_duration_ms set, when the
\* estimate at 20 characters per second exceeds max_duration_ms validate
\* emits a warning if allow_shortening is true, and an error that makes the
\* script invalid if it is false; when max_duration_ms exceeds the total
\* duration of the breathing cycle it emits a warning and no error for that;
\* a narration segment gets no timing message of either kind.
C23_TimingFeasibility ==
    IsValidate =>
        LET segments == call.args[1].segments
        IN  \A i \in 1..Len(segments) :
                LET segment == segments[i]
                    fast_ms == (total_chars(segment.fragments) * 1000) \div 20
                IN  /\ segment.type = "narration" =>
                            /\ About(ret.errors, Timing, i - 1) = <<>>
                            /\ About(ret.warnings, Timing, i - 1) = <<>>
                    /\ (/\ segment.type = "breathing_cycle"
                        /\ segment.max_duration_ms # None
                        /\ fast_ms > segment.max_duration_ms[1]) =>
                            IF segment.allow_shortening
                            THEN /\ About(ret.warnings,
                                          {"audio likely to exceed max_duration"}, i - 1) # <<>>
                                 /\ About(ret.errors, Timing, i - 1) = <<>>
                            ELSE /\ About(ret.errors,
                                          {"audio will exceed max_duration"}, i - 1) # <<>>
                                 /\ ~ret.is_valid
                    /\ (/\ segment.type = "breathing_cycle"
                        /\ segment.max_duration_ms # None
                        /\ segment.max_duration_ms[1]
                               > get_total_cycle_duration_ms(segment.breathing[1])) =>
                            /\ About(ret.warnings,
                                     {"max_duration exceeds breathing cycle"}, i - 1) # <<>>
                            /\ About(ret.errors,
                                     {"max_duration exceeds breathing cycle"}, i - 1) = <<>>

\* The only segment of the validated script.
OnlySegment == call.args[1].segments[1]

\* Two characters need 100 ms, 99 are allowed and shortening is not: an
\* error, and the only one.
C23_Witness ==
    /\ IsValidateRules
    /\ OnlySegment.type = "breathing_cycle" /\ OnlySegment.fragments = <<"bb">>
    /\ OnlySegment.max_duration_ms = Some(99) /\ ~OnlySegment.allow_shortening
    /\ OnlyPattern.pattern = Some("box") /\ OnlyPattern.duration_ms = None
    /\ OnlyPattern.inhale_ms = None /\ OnlyPattern.repetitions = 100
    /\ ret = [is_valid |-> FALSE,
              errors |-> << <<"audio will exceed max_duration", 0, "s", 100, 99>> >>,
              warnings |-> <<>>]

\* The same with shortening allowed: a warning, and the script is valid.
C23_WitnessShortening ==
    /\ IsValidateRules
    /\ OnlySegment.type = "breathing_cycle" /\ OnlySegment.fragments = <<"bb">>
    /\ OnlySegment.max_duration_ms = Some(99) /\ OnlySegment.allow_shortening
    /\ OnlyPattern.pattern = Some("box") /\ OnlyPattern.duration_ms = None
    /\ OnlyPattern.inhale_ms = None /\ OnlyPattern.repetitions = 100
    /\ ret = [is_valid |-> TRUE, errors |-> <<>>,
              warnings |-> << <<"audio likely to exceed max_duration", 0, "s", 100, 99>> >>]

\* 20 s allowed within a box breath of 16 s: a warning.
C23_WitnessCycle ==
    /\ IsValidateRules
    /\ OnlySegment.type = "breathing_cycle"
    /\ OnlySegment.max_duration_ms = Some(20000)
    /\ OnlyPattern.pattern = Some("box") /\ OnlyPattern.duration_ms = None
    /\ OnlyPattern.inhale_ms = None
    /\ About(ret.warnings, Timing, 0)
           = << <<"max_duration exceeds breathing cycle", 0, "s", 20000, 16000>> >>
    /\ ret.is_valid

\* A narration with the same constraints: no timing message.
C23_WitnessNarration ==
    /\ IsValidateRules
    /\ OnlySegment.type = "narration" /\ OnlySegment.fragments = <<"bb">>
    /\ OnlySegment.max_duration_ms = Some(99) /\ ~OnlySegment.allow_shortening
    /\ OnlyPattern.pattern = Some("box") /\ OnlyPattern.duration_ms = None
    /\ OnlyPattern.inhale_ms = None /\ OnlyPattern.repetitions = 100
    /\ ret = [is_valid |-> TRUE, errors |-> <<>>, warnings |-> <<>>]

\* 161 characters within 8050 ms: the estimate does not exceed the limit,
\* the floating-point product does.
C23_WitnessRounding ==
    /\ IsValidateRules
    /\ OnlySegment.type = "breathing_cycle" /\ OnlySegment.fragments = <<Text161>>
    /\ OnlySegment.max_duration_ms = Some(8050) /\ ~OnlySegment.allow_shortening
    /\ About(ret.errors, Timing, 0)
           = << <<"audio will exceed max_duration", 0, "s", 8050, 8050>> >>

\* C24: when the script gives a duration_seconds (0 included) that differs
\* from the estimated total duration by more than 30 s, validate emits one
\* duration-mismatch warning and no error for it; when the difference is at
\* most 30 s, or no duration is given, it emits no such warning.
C24_DurationMismatchWarns ==
    IsValidate =>
        LET script == call.args[1]
            estimated_ms == estimate_total_duration_ms(script)
            mismatches == SelectSeq(ret.warnings,
                                    LAMBDA e : e[1] = "Exercise duration mismatch")
        IN  /\ ErrorsOf("Exercise duration mismatch") = <<>>
            /\ IF /\ script.duration_seconds # None
                  /\ Abs(script.duration_seconds[1] * 1000 - estimated_ms) > 30000
               THEN Len(mismatches) = 1
               ELSE mismatches = <<>>

\* A duration of 0 s for an exercise estimated at 90 s: valid, no warning.
C24_Witness ==
    /\ IsValidate
    /\ call.args[1].duration_seconds = Some(0)
    /\ call.args[1].segments = <<Ninety>>
    /\ ret = [is_valid |-> TRUE, errors |-> <<>>, warnings |-> <<>>]

\* 60 s against 90.05 s draws the warning, 60 s against 90 s does not.
C24_WitnessMismatch ==
    /\ IsValidate
    /\ call.args[1].duration_seconds = Some(60)
    /\ call.args[1].segments = <<Ninety, Outro>>
    /\ ret.warnings = << <<"Exercise duration mismatch", 60, 90050>> >>
    /\ ret.is_valid

C24_WitnessWithinTolerance ==
    /\ IsValidate
    /\ call.args[1].duration_seconds = Some(60)
    /\ call.args[1].segments = <<Ninety>>
    /\ ret.warnings = <<>>

\* C25: on one NarrationValidator, whatever scripts it was given before, each
\* validate returns the errors and warnings, in the same order, that a new
\* validator returns for the script; nothing is carried over from earlier
\* calls, the lists of the instance hold the latest result only, and the
\* results returned earlier stay as they were.
C25_ValidateKeepsNothing ==
    /\ \A k \in 1..Len(returned) :
           returned[k].result = validate_on(NewValidator, returned[k].script).result
    /\ returned # <<>> =>
           /\ validator.errors = returned[Len(returned)].result.errors
           /\ validator.warnings = returned[Len(returned)].result.warnings

\* What was returned is never rewritten.
C25_ReturnedResultsStay ==
    [][\A k \in 1..Len(returned) : returned'[k] = returned[k]]_vars

\* A clean script validated after two that had errors and warnings.
C25_Witness ==
    /\ Len(returned) = 3
    /\ returned[1].result.errors # <<>>
    /\ returned[2].result.warnings # <<>>
    /\ returned[3].script.segments = <<Intro>>
    /\ returned[3].result = [is_valid |-> TRUE, errors |-> <<>>, warnings |-> <<>>]

\* The same script twice: the same result twice.
C25_WitnessSame ==
    /\ Len(returned) = 2
    /\ returned[1].script.segments = <<Intro, Intro, Gasp>>
    /\ returned[2] = returned[1]
    /\ Len(returned[2].result.errors) = 2

\* C26: when two processes sharing one cache directory interleave get and
\* set on one key in any order, no call raises to its caller: get ends with
\* the audio or a miss, set returns normally.
C26_NoCallRaises ==
    \A p \in Procs :
        /\ proc[p].out # "raised"
        /\ (proc[p].op = "get" /\ proc[p].pc = "idle") => proc[p].out \in {"audio", "None"}
        /\ (proc[p].op = "set" /\ proc[p].pc = "idle") => proc[p].out = "None"

\* The part that holds: get never raises.
C26_GetNeverRaises ==
    \A p \in Procs : proc[p].op = "get" => proc[p].out # "raised"

\* A set whose write failed found the blob, and raised when it came to
\* remove it: another process had removed it in between.
C26_Witness ==
    \E p \in Procs :
        /\ proc[p].op = "set" /\ proc[p].pc = "idle" /\ proc[p].out = "raised"
        /\ ~Exists(blob[RaceKey])

\* The lengths the TTS client returned for the fragments of segment index,
\* in order.
SpokenFor(index) ==
    LET of == SelectSeq(gen.spoken, LAMBDA s : s[1] = index)
    IN  [k \in 1..Len(of) |-> of[k][2]]

\* The next multiple of 1000 at or above ms.
NextThousand(ms) == CHOOSE n \in {k * 1000 : k \in 0..(ms \div 1000 + 1)} :
                        n >= ms /\ n - ms < 1000

\* C27: in every successful generate run, whatever lengths the TTS client
\* returned, the duration_ms of each SegmentResult is the sum over the
\* fragments of the segment of the returned length rounded up to the next
\* multiple of 1000; every segment duration and total_duration_ms are
\* multiples of 1000, no fragment is kept shorter than it was returned, and
\* the exported file holds what the result says.
C27_SegmentDurationsAreWholeSeconds ==
    gen.pc = "returned" =>
        LET results == gen.segment_results
        IN  /\ Len(results) = Len(gen.script.segments)
            /\ \A i \in 1..Len(results) :
                   LET spoken == SpokenFor(i - 1)
                   IN  /\ Len(spoken) = Len(gen.script.segments[i].fragments)
                       /\ results[i].duration_ms
                              = SumSeq([k \in 1..Len(spoken) |-> NextThousand(spoken[k])])
                       /\ results[i].duration_ms >= SumSeq(spoken)
                       /\ results[i].duration_ms % 1000 = 0
                       /\ out_files[results[i].audio_path] = File(results[i].duration_ms)
            /\ gen.result.total_duration_ms
                   = SumSeq([i \in 1..Len(results) |-> results[i].duration_ms])
            /\ gen.result.total_duration_ms % 1000 = 0

\* Three fragments spoken in 1500, 2001 and 2000 ms: a segment of 7000 ms.
C27_Witness ==
    /\ gen.pc = "returned"
    /\ gen.script.segments[1] = Intro
    /\ SpokenFor(0) = <<1500, 2001, 2000>>
    /\ gen.segment_results[1].duration_ms = 7000

\* The script segments with a breathing pattern, by their indices from 0.
BreathingIndices(script) ==
    SelectSeq([i \in 1..Len(script.segments) |-> i - 1],
              LAMBDA idx : script.segments[idx + 1].breathing # None)

\* The path the claim gives to the audio of segment idx, from the root of the
\* programs.
ClaimedKey(script, idx) ==
    "program_panic/" \o script.exercise_id \o "/" \o script.segments[idx + 1].id
        \o "_" \o ToString(idx) \o ".wav"

\* C28: in the metadata written by a successful generate run, the one voices
\* entry of every breath cycle is program_panic/{exercise_dir_name}/
\* {segment_id}_{segment_index}.wav for the segment the cycle was built from,
\* which is the file exported for that segment; and no two segments of the
\* run are exported to the same path.
C28_VoicesReferenceOwnSegment ==
    gen.pc = "returned" =>
        LET script  == gen.script
            results == gen.segment_results
            cycles  == gen.metadata.breath_cycles
            indices == BreathingIndices(script)
        IN  /\ Len(cycles) = Len(indices)
            /\ \A k \in 1..Len(cycles) :
                   /\ Len(cycles[k].voices) = 1
                   /\ cycles[k].voices[1].key = ClaimedKey(script, indices[k])
                   /\ cycles[k].voices[1].key
                          = "program_panic/" \o script.exercise_id \o "/"
                                \o results[indices[k] + 1].audio_path
            /\ \A i, j \in 1..Len(results) :
                   results[i].audio_path = results[j].audio_path => i = j

HasSeparator(id) == \E i \in 1..Len(id) : SubSeq(id, i, i) = "/"

\* The claim for scripts whose segment ids have no path separator in them.
C28_WithPlainIds ==
    (gen.pc = "returned"
        /\ \A i \in 1..Len(gen.script.segments) : ~HasSeparator(gen.script.segments[i].id))
    => C28_VoicesReferenceOwnSegment

\* The segment "in/box" is exported to in/box_0.wav, and its breath cycle
\* refers to box_0.wav, a file the run did not write.
C28_Witness ==
    /\ gen.pc = "returned"
    /\ gen.script.segments = <<Nested>>
    /\ gen.segment_results[1].audio_path = "in/box_0.wav"
    /\ out_files["in/box_0.wav"].st = "ok"
    /\ gen.metadata.breath_cycles[1].voices[1].key = "program_panic/ex/box_0.wav"

\* Two breathing segments with plain ids: each cycle refers to its own file.
C28_WitnessPlain ==
    /\ gen.pc = "returned"
    /\ gen.script.segments = <<Intro, Box>>
    /\ Len(gen.metadata.breath_cycles) = 1
    /\ gen.metadata.breath_cycles[1].voices[1].key = "program_panic/ex/box_1.wav"
    /\ out_files["box_1.wav"].st = "ok"

\* C29, the counters: api_calls, total_characters, cache_hits and
\* cache_misses never decrease, whatever a generate_audio call ends with.
C29_CountersNeverDecrease ==
    [][/\ api_calls' >= api_calls /\ total_characters' >= total_characters
       /\ cache_hits' >= cache_hits /\ cache_misses' >= cache_misses]_vars

\* C29: with caching enabled cache_hits + cache_misses is the number of
\* generate_audio calls started so far; with caching disabled both stay 0 and
\* every call reaches the network; and no counter is ever negative.
C29_CountersAccountForCalls ==
    /\ api_calls >= 0 /\ total_characters >= 0
    /\ cache_enabled => cache_hits + cache_misses = n_calls
    /\ ~cache_enabled =>
           /\ cache_hits = 0 /\ cache_misses = 0
           /\ call.op = "generate_audio" => ret.net_calls >= 1

\* The same for a client that makes at least one attempt.
C29_WithAtLeastOneAttempt ==
    max_retries >= 1 => C29_CountersAccountForCalls

\* Without a cache and with max_retries = 0 a call ends without any request.
C29_Witness ==
    /\ ~cache_enabled /\ max_retries = 0
    /\ call.op = "generate_audio" /\ n_calls = 1
    /\ ret.net_calls = 0 /\ api_calls = 0
    /\ cache_hits = 0 /\ cache_misses = 0

\* With the cache: a miss and then a hit out of two calls, one request.
C29_WitnessCached ==
    /\ cache_enabled /\ n_calls = 2
    /\ cache_hits = 1 /\ cache_misses = 1 /\ api_calls = 1 /\ ret.hit

\* C30: for every max_retries >= 0, a generate_audio call that is not
\* served from the cache makes at least one network attempt, and a call that
\* fails ends with a TTSError: no other exception, and no return without
\* audio.
C30_FailuresAreTtsErrors ==
    call.op = "generate_audio" =>
        /\ ~ret.hit => ret.net_calls >= 1
        /\ ret.kind \in {"audio", "TTSError"}

\* The same for max_retries >= 1.
C30_WithAtLeastOneAttempt ==
    max_retries >= 1 => C30_FailuresAreTtsErrors

\* max_retries = 0: no attempt, and the TypeError of `raise None`.
C30_Witness ==
    /\ max_retries = 0 /\ call.op = "generate_audio"
    /\ ~ret.hit /\ ret.net_calls = 0 /\ ret.kind = "TypeError"

\* max_retries = 3 and three failures: three attempts and a TTSError.
C30_WitnessExhausted ==
    /\ max_retries = 3 /\ call.op = "generate_audio"
    /\ ret.net_calls = 3 /\ ret.kind = "TTSError"
=============================================================================
